---- MODULE Spec2Model ----
(***************************************************************************)
(* Content ingestion pipeline of agent-builder:                            *)
(*   handlers/document_converter.py  (chunker, document chunk storage)     *)
(*   handlers/product_importer.py    (embedding batcher, product import)   *)
(* Strings are sequences of one-character strings.  A database table is    *)
(* the set of its committed rows per merchant; a transaction works on a    *)
(* private copy that replaces the committed rows only at COMMIT.           *)
(***************************************************************************)
EXTENDS Integers, Sequences, FiniteSets, TLC

\* ------------------------------------------------------------------ bounds
MaxRuns == 1          \* ingestion runs per behaviour
MaxTexts == 51        \* longest list handed to the embedding batcher
MaxLen == 6           \* longest text handed to the chunker
MaxChunkSize == 3     \* largest max_size tried on the chunker
MaxOverlap == 2       \* largest overlap tried on the chunker

\* ------------------------------------------------------- program constants
batch_size == 25          \* texts per embedding service call
MaxEmbedChars == 20000    \* t[:20000]

Merchants == {"m1", "m2"}
Platforms == {"shopify", "woocommerce", "squarespace"}
DocTable == "document_chunks"
Tables == Platforms \cup {DocTable}

Min(a, b) == IF a <= b THEN a ELSE b

VARIABLES
  tables,     \* tables[t][m]: committed rows of merchant m in table t
  last,       \* what the most recent ingestion run did and returned
  runs,       \* number of ingestion runs so far
  embedCall,  \* one call of the embedding batcher: input, failures, result
  split,      \* one call of the chunker: input, parameters, result
  norm,       \* one call of the catalog normalizer: rows, mode, products
  stores,     \* the store-parent tables and the last _ensure_store_entry call
  conv,       \* the document loop of one convert_documents call
  pool,       \* the connection pool and the last call that used it
  loop,       \* the event loop running the onboarding background tasks
  cfg,        \* the last call with a configuration argument and its I/O
  client,     \* the embedding client globals of the two handler modules
  filt,       \* the chunks of one extracted text on their way to storage
  onb         \* one process_onboarding run: step statuses, merchant row, pool

\* the variables of the ingestion, batcher and chunker specifications
\* and the variables of the specifications that follow them
coreVars == <<tables, last, runs, embedCall, split>>
lateVars == <<cfg, client, filt, onb>>
moreVars == <<norm, stores, conv, pool, loop, cfg, client, filt, onb>>
vars == <<tables, last, runs, embedCall, split, norm, stores, conv, pool, loop,
          cfg, client, filt, onb>>

\* =================================================================
\* Embedding batcher
\* =================================================================

\* A text is [id, len]; the service answers one vector per input, tagged
\* with the input it was computed from.  None is the absent vector.
None == [of |-> 0, chars |-> 0]
Text(i, l) == [id |-> i, len |-> l]
Truncate(t) == [id |-> t.id, len |-> Min(t.len, MaxEmbedChars)]
Vec(t) == [of |-> t.id, chars |-> t.len]

\* model.get_embeddings(inputs) raises when the call contains a text the
\* service cannot embed (bad: the ids of those texts).
get_embeddings_raises(inputs, bad) == \E i \in DOMAIN inputs : inputs[i].id \in bad

generate_embeddings_batch_drop(texts, bad) ==
  LET inputs == [i \in DOMAIN texts |-> Truncate(texts[i])]
  IN  IF get_embeddings_raises(inputs, bad)
      THEN << >>
      ELSE [i \in DOMAIN texts |-> Vec(inputs[i])]

generate_embeddings_batch_per_item(texts, bad) ==
  LET inputs == [i \in DOMAIN texts |-> Truncate(texts[i])]
  IN  [i \in DOMAIN texts |-> IF inputs[i].id \in bad THEN None ELSE Vec(inputs[i])]

generate_embeddings_batch(texts, bad) ==
  LET inputs == [i \in DOMAIN texts |-> Truncate(texts[i])]
  IN  IF get_embeddings_raises(inputs, bad)
      THEN [i \in DOMAIN texts |-> None]
      ELSE [i \in DOMAIN texts |-> Vec(inputs[i])]

RECURSIVE generate_all_embeddings_from(_, _, _)
generate_all_embeddings_from(texts, bad, i) ==
  IF i >= Len(texts) THEN << >>
  ELSE LET batch == SubSeq(texts, i + 1, Min(i + batch_size, Len(texts)))
       IN  generate_embeddings_batch(batch, bad)
             \o generate_all_embeddings_from(texts, bad, i + batch_size)

generate_all_embeddings(texts, bad) == generate_all_embeddings_from(texts, bad, 0)

\* a call of the embedding service: the ids of its texts, and whether it raised
ServiceCall(batch, bad) ==
  [ ids |-> [k \in DOMAIN batch |-> batch[k].id],
    raised |-> get_embeddings_raises([k \in DOMAIN batch |-> Truncate(batch[k])], bad) ]

\* the loop of _generate_all_embeddings given up at the first failed call
RECURSIVE embedding_calls_stop_at_failure(_, _, _)
embedding_calls_stop_at_failure(texts, bad, i) ==
  IF i >= Len(texts) THEN << >>
  ELSE LET batch == SubSeq(texts, i + 1, Min(i + batch_size, Len(texts)))
           call  == ServiceCall(batch, bad)
       IN  IF call.raised THEN <<call>>
           ELSE <<call>> \o embedding_calls_stop_at_failure(texts, bad, i + batch_size)

\* the service calls of _generate_all_embeddings, in the order the loop over
\* range(0, len(texts), batch_size) issues them; each call has returned (or
\* raised and been caught in _generate_embeddings_batch) before the next
RECURSIVE embedding_calls_from(_, _, _)
embedding_calls_from(texts, bad, i) ==
  IF i >= Len(texts) THEN << >>
  ELSE LET batch == SubSeq(texts, i + 1, Min(i + batch_size, Len(texts)))
       IN  <<ServiceCall(batch, bad)>> \o embedding_calls_from(texts, bad, i + batch_size)

\* =================================================================
\* Storage transaction
\* =================================================================

\* A statement of a run: op and, for an INSERT, the row it writes.
NoRow == [item |-> [src |-> 0, idx |-> 0], vec |-> FALSE]
Stmt(op) == [op |-> op, row |-> NoRow]
Insert(item, has_vec) == [op |-> "insert", row |-> [item |-> item, vec |-> has_vec]]

Item(src, i) == [src |-> src, idx |-> i]
ItemText(item) == Text(item.idx, 1)

\* zip(a, b): pairs up to the shorter of the two
zip(a, b) == [k \in 1..Min(Len(a), Len(b)) |-> [fst |-> a[k], snd |-> b[k]]]

\* Position of the statement at which the injected fault raises (0: never).
FaultIdx(plan, fault) ==
  LET hits == {i \in DOMAIN plan :
                 \/ plan[i].op = fault
                 \/ fault \in {"insert_first", "insert_last"} /\ plan[i].op = "insert"}
  IN  IF hits = {} THEN 0
      ELSE IF fault = "insert_last"
           THEN CHOOSE i \in hits : \A j \in hits : j <= i
           ELSE CHOOSE i \in hits : \A j \in hits : i <= j

\* Rows the open transaction has written before statement number upto.
Written(plan, upto) == {plan[i].row : i \in {j \in 1..(upto - 1) : plan[j].op = "insert"}}

Ops(plan) == [i \in DOMAIN plan |-> plan[i].op]

\* conn.rollback(): the committed rows stay as they were.
rollback_keeps_work(committed, work) == work

rollback(committed, work) == committed

\* conn.commit(): the transaction's rows replace the merchant's rows.
commit(committed, work) == work

\* Outcome of running a transaction's statements under an injected fault:
\* the statements up to the raising one are executed; the exception handler
\* rolls back, a run without a fault commits with its last statement.
RunTransaction(committed, plan, fault) ==
  LET fi     == FaultIdx(plan, fault)
      failed == fi # 0
      work   == Written(plan, IF failed THEN fi ELSE Len(plan) + 1)
  IN  [ failed   |-> failed,
        executed |-> Ops(IF failed THEN SubSeq(plan, 1, fi) ELSE plan),
        work     |-> work,
        rows     |-> IF failed THEN rollback(committed, work)
                               ELSE commit(committed, work) ]

\* ----------------------------------------------------------------- documents

\* items of the run, in order (one per generated chunk)
RunItems(src, n) == [i \in 1..n |-> Item(src, i)]

\* chunk_data: the chunks whose content is not blank
chunk_data_of(src, n, blank) ==
  SelectSeq(RunItems(src, n), LAMBDA it : it.idx \notin blank)

\* The embedding/insert loop: one service call per 25 chunks, followed by
\* the INSERTs of the chunks of that sub-batch whose embedding is not None.
RECURSIVE doc_batches(_, _, _)
doc_batches(chunk_data, bad, i) ==
  IF i >= Len(chunk_data) THEN << >>
  ELSE LET batch      == SubSeq(chunk_data, i + 1, Min(i + batch_size, Len(chunk_data)))
           texts      == [k \in DOMAIN batch |-> ItemText(batch[k])]
           embeddings == generate_embeddings_batch(texts, bad)
           kept       == SelectSeq(zip(batch, embeddings), LAMBDA p : p.snd # None)
       IN  <<Stmt("embed")>>
             \o [k \in DOMAIN kept |-> Insert(kept[k].fst, TRUE)]
             \o doc_batches(chunk_data, bad, i + batch_size)

\* the service calls of the loop of _store_document_embeddings over
\* range(0, len(chunk_data), batch_size), and the embeddings it gets back
RECURSIVE chunk_calls_from(_, _, _)
chunk_calls_from(texts, bad, i) ==
  IF i >= Len(texts) THEN << >>
  ELSE LET batch == SubSeq(texts, i + 1, Min(i + batch_size, Len(texts)))
       IN  <<ServiceCall(batch, bad)>> \o chunk_calls_from(texts, bad, i + batch_size)

RECURSIVE chunk_embeddings_from(_, _, _)
chunk_embeddings_from(texts, bad, i) ==
  IF i >= Len(texts) THEN << >>
  ELSE LET batch == SubSeq(texts, i + 1, Min(i + batch_size, Len(texts)))
       IN  generate_embeddings_batch(batch, bad) \o chunk_embeddings_from(texts, bad, i + batch_size)

store_document_embeddings(committed, src, n, blank, bad, fault) ==
  LET chunk_data == chunk_data_of(src, n, blank)
      body  == IF Len(chunk_data) = 0
               THEN <<Stmt("commit")>>
               ELSE doc_batches(chunk_data, bad, 0) \o <<Stmt("commit")>>
      plan  == <<Stmt("connect"), Stmt("delete")>> \o body
      tx    == RunTransaction(committed, plan, fault)
      \* get_connection() raised: conn is None, nothing to roll back or return
      no_conn == tx.failed /\ fault = "connect"
  IN  [ rows      |-> IF no_conn THEN committed ELSE tx.rows,
        log       |-> tx.executed
                        \o (IF tx.failed /\ ~no_conn THEN <<"rollback">> ELSE << >>)
                        \o (IF no_conn THEN << >> ELSE <<"return_connection">>),
        stored    |-> Cardinality(tx.work),
        tx_failed |-> tx.failed,
        raised    |-> FALSE ]

convert_documents(committed, src, n, blank, bad, fault) ==
  IF n = 0
  THEN \* every path was skipped: no upload, no storage
       [ rows |-> committed, log |-> <<"extract">>, count |-> 0,
         outcome |-> "returned", failed |-> FALSE, tx_failed |-> FALSE,
         committed |-> FALSE ]
  ELSE IF fault = "upload"
  THEN [ rows |-> committed, log |-> <<"extract", "upload">>, count |-> 0,
         outcome |-> "raised", failed |-> TRUE, tx_failed |-> FALSE,
         committed |-> FALSE ]
  ELSE LET st == store_document_embeddings(committed, src, n, blank, bad, fault)
       IN  [ rows |-> st.rows, log |-> <<"extract", "upload">> \o st.log,
             count |-> st.stored,
             outcome |-> IF st.raised THEN "raised" ELSE "returned",
             failed |-> st.tx_failed, tx_failed |-> st.tx_failed,
             committed |-> ~st.tx_failed ]

\* ------------------------------------------------------------------ products

\* _embedding_str(embedding) is None exactly for an absent vector
embedding_str_present(embedding) == embedding # None

\* INSERT statements of one platform import: one row per product, with the
\* vector column when the embedding is present and without it otherwise.
\* Squarespace looks the new row up and adds its default variant.
product_inserts(platform, pairs) ==
  IF platform = "squarespace"
  THEN [j \in 1..(3 * Len(pairs)) |->
          LET p == pairs[(j + 2) \div 3]
          IN  CASE j % 3 = 1 -> Insert(p.fst, embedding_str_present(p.snd))
                [] j % 3 = 2 -> Stmt("select_id")
                [] OTHER     -> Stmt("insert_variant")]
  ELSE [j \in 1..Len(pairs) |-> Insert(pairs[j].fst, embedding_str_present(pairs[j].snd))]

\* _import_shopify / _import_woocommerce / _import_squarespace, embedding first
import_platform_embed_first(platform, src, n, bad) ==
  LET products    == RunItems(src, n)
      embed_texts == [k \in DOMAIN products |-> ItemText(products[k])]
      embeddings  == generate_all_embeddings(embed_texts, bad)
      calls       == (n + batch_size - 1) \div batch_size
  IN  IF n = 0 THEN <<Stmt("normalize"), Stmt("delete")>>
      ELSE <<Stmt("normalize")>>
             \o [k \in 1..calls |-> Stmt("embed")]
             \o <<Stmt("delete")>>
             \o product_inserts(platform, zip(products, embeddings))

\* _import_shopify / _import_woocommerce / _import_squarespace:
\* DELETE, build the products (normalize), embed them all, INSERT each
import_platform(platform, src, n, bad) ==
  LET products    == RunItems(src, n)
      embed_texts == [k \in DOMAIN products |-> ItemText(products[k])]
      embeddings  == generate_all_embeddings(embed_texts, bad)
      calls       == (n + batch_size - 1) \div batch_size
  IN  <<Stmt("delete"), Stmt("normalize")>>
        \o (IF n = 0 THEN << >>
            ELSE [k \in 1..calls |-> Stmt("embed")]
                   \o product_inserts(platform, zip(products, embeddings)))

NoRun(log, outcome) ==
  [ rows |-> {}, log |-> log, count |-> 0, outcome |-> outcome,
    failed |-> outcome = "raised", tx_failed |-> FALSE, committed |-> FALSE ]

import_products(committed, platform, src, n, parse, bad, fault) ==
  IF platform \notin Platforms
    THEN [NoRun(<< >>, "returned") EXCEPT !.rows = committed]
  ELSE IF fault = "download"
    THEN [NoRun(<<"download">>, "raised") EXCEPT !.rows = committed]
  ELSE IF parse # "ok"   \* unsupported file format, or no rows parsed
    THEN [NoRun(<<"download", "parse">>, "returned") EXCEPT !.rows = committed]
  ELSE IF fault = "connect"   \* get_connection() is outside the try
    THEN [NoRun(<<"download", "parse", "connect">>, "raised") EXCEPT !.rows = committed]
  ELSE LET plan == <<Stmt("store")>> \o import_platform(platform, src, n, bad)
                     \o <<Stmt("commit")>>
           tx   == RunTransaction(committed, plan, fault)
       IN  [ rows |-> tx.rows,
             log  |-> <<"download", "parse", "connect">> \o tx.executed
                        \o (IF tx.failed THEN <<"rollback">> ELSE << >>)
                        \o <<"return_connection">>,
             count |-> IF tx.failed THEN 0 ELSE Cardinality(tx.work),
             outcome |-> IF tx.failed THEN "raised" ELSE "returned",
             failed |-> tx.failed, tx_failed |-> tx.failed,
             committed |-> ~tx.failed ]

\* =================================================================
\* Ingestion runs
\* =================================================================

\* versions of the source content: 1 is what the earlier run ingested
Sources == {1, 2}
ItemCounts == {0, 1, batch_size + 1}
BadSets == SUBSET {1, batch_size + 1}
DocFaults == {"none", "upload", "connect", "delete", "insert_first", "insert_last", "commit"}
ProductFaults == {"none", "download", "connect", "store", "delete",
                  "insert_first", "insert_last", "commit"}

\* Inputs of a run that differ in what the run does: a fault that strikes
\* before the embedding step is tried without embedding failures, and the
\* long list is tried with the faults that leave a partly written transaction.
Relevant(n, blank, bad, fault) ==
  /\ blank \subseteq 1..n /\ bad \subseteq 1..n
  /\ fault \in {"download", "upload", "connect", "store", "delete"} => bad = {} /\ blank = {}
  /\ n = 0 => fault \notin {"insert_first", "insert_last"}
  /\ n = 1 => fault # "insert_last"
  /\ n > 1 => fault \in {"none", "insert_last", "commit"}

NoLast ==
  [ m |-> "none", kind |-> "none", src |-> 0, items |-> {}, unembedded |-> {},
    before |-> {}, outcome |-> "none", failed |-> FALSE, tx_failed |-> FALSE,
    committed |-> FALSE, count |-> 0, log |-> << >> ]

\* the items whose embedding comes back None
Unembedded(items, bad) ==
  LET embeddings == generate_all_embeddings([k \in DOMAIN items |-> ItemText(items[k])], bad)
  IN  {items[k] : k \in {j \in DOMAIN items : j <= Len(embeddings) /\ embeddings[j] = None}}

Range(s) == {s[i] : i \in DOMAIN s}

IdleEmbed ==
  [ fn |-> "none", texts |-> << >>, bad |-> {}, result |-> << >>, calls |-> << >>,
    done |-> FALSE ]
IdleSplit == [text |-> << >>, max_size |-> 1, overlap |-> 0, chunks |-> << >>, done |-> FALSE]

\* the later specifications' variables while they are not exercised
IdleNorm ==
  [ platform |-> "none", grouped |-> FALSE, rows |-> << >>, earlier |-> 0,
    products |-> << >>, again |-> << >>, done |-> FALSE ]

\* shop_url as given by the caller; NoUrl is None
NoUrl == [scheme |-> "", host |-> "", slash |-> FALSE]

NoCall ==
  [ merchant |-> "none", platform |-> "none", url |-> NoUrl, raised |-> FALSE,
    committed |-> FALSE, id |-> 0, before |-> {} ]

IdleStores ==
  [ rows |-> {}, next_id |-> [p \in Platforms |-> 1], call |-> NoCall, prev |-> NoCall,
    calls |-> 0 ]

IdleConv ==
  [ paths |-> << >>, documents |-> << >>, skipped_files |-> << >>,
    done |-> FALSE, raised |-> FALSE ]

IdlePool ==
  [ out |-> 0, calls |-> 0, kind |-> "none", fault |-> "none", rollback_raised |-> FALSE,
    gets |-> 0, puts |-> 0, outcome |-> "none", log |-> << >> ]

MaxJobs == 3

\* no onboarding request has been made
IdleLoop == [task |-> [j \in 1..MaxJobs |-> [merchant |-> "none", pc |-> "none"]], started |-> 0]

IdleCfg == [calls |-> 0, fn |-> "none", arg |-> << >>, outcome |-> "none", log |-> << >>]

Modules == {"document_converter", "product_importer"}

\* module globals as imported: no platform initialisation, no model
IdleClient ==
  [ aiplatform_initialized |-> [mod \in Modules |-> FALSE],
    embedding_model |-> [mod \in Modules |-> FALSE],
    inits |-> 0, loads |-> 0, calls |-> 0,
    call |-> [mod |-> "none", init_ran |-> FALSE, load_ran |-> FALSE, raised |-> FALSE] ]

IdleFilt ==
  [ m |-> "none", text |-> << >>, bad |-> {}, chunks |-> << >>, sent |-> << >>,
    inserted |-> << >>, done |-> FALSE ]

\* the steps of process_onboarding, in the order it takes them
Steps ==
  << "create_merchant_record", "create_folders", "process_products", "process_categories",
     "convert_documents", "setup_vertex", "generate_config", "finalize" >>

\* what happens in the collaborators of one run, step by step
NoFaults ==
  [ create |-> "ok", folders |-> "ok", products |-> "ok", categories |-> "ok",
    documents |-> "ok", vertex |-> "ok", vertex_db |-> "ok", config |-> "ok",
    status_update |-> "ok" ]

\* no run yet: no merchant row, no connection checked out
IdleOnb ==
  [ runs |-> 0, m |-> "none", inputs |-> NoFaults,
    status |-> [k \in 1..Len(Steps) |-> "pending"],
    row |-> [m \in Merchants |-> "none"], out |-> 0 ]

LateIdle ==
  /\ cfg = IdleCfg
  /\ client = IdleClient
  /\ filt = IdleFilt
  /\ onb = IdleOnb

MoreIdle ==
  /\ norm = IdleNorm
  /\ stores = IdleStores
  /\ conv = IdleConv
  /\ pool = IdlePool
  /\ loop = IdleLoop
  /\ LateIdle

ConvertDocuments ==
  \E m \in Merchants, src \in Sources, n \in ItemCounts,
     blank \in {{}, {1}}, bad \in BadSets, fault \in DocFaults :
    /\ runs < MaxRuns
    /\ Relevant(n, blank, bad, fault)
    /\ n = 0 => fault = "none"
    /\ \E r \in {convert_documents(tables[DocTable][m], src, n, blank, bad, fault)} :
       LET chunk_data == chunk_data_of(src, n, blank)
       IN  /\ tables' = [tables EXCEPT ![DocTable][m] = r.rows]
           /\ last' = [ m |-> m, kind |-> DocTable, src |-> src,
                        items |-> Range(chunk_data),
                        unembedded |-> Unembedded(chunk_data, bad),
                        before |-> tables[DocTable][m],
                        outcome |-> r.outcome, failed |-> r.failed,
                        tx_failed |-> r.tx_failed, committed |-> r.committed,
                        count |-> r.count, log |-> r.log ]
    /\ runs' = runs + 1
    /\ UNCHANGED <<embedCall, split>>
    /\ UNCHANGED moreVars

ImportProducts ==
  \E m \in Merchants, platform \in Platforms \cup {"magento"}, src \in Sources,
     n \in ItemCounts, parse \in {"ok", "badformat", "norows"},
     bad \in BadSets, fault \in ProductFaults :
    /\ runs < MaxRuns
    /\ Relevant(n, {}, bad, fault)
    /\ parse # "ok" => n = 0 /\ fault = "none"
    /\ platform \notin Platforms => n = 0 /\ fault = "none" /\ parse = "ok" /\ src = 1
    /\ \E before \in {IF platform \in Platforms THEN tables[platform][m] ELSE {}} :
       \E r \in {import_products(before, platform, src, n, parse, bad, fault)} :
       LET products == RunItems(src, n)
       IN  /\ tables' = IF platform \in Platforms
                        THEN [tables EXCEPT ![platform][m] = r.rows]
                        ELSE tables
           /\ last' = [ m |-> m, kind |-> platform, src |-> src,
                        items |-> Range(products),
                        unembedded |-> Unembedded(products, bad),
                        before |-> before,
                        outcome |-> r.outcome, failed |-> r.failed,
                        tx_failed |-> r.tx_failed, committed |-> r.committed,
                        count |-> r.count, log |-> r.log ]
    /\ runs' = runs + 1
    /\ UNCHANGED <<embedCall, split>>
    /\ UNCHANGED moreVars

\* Rows committed by an earlier run of source version 1.
PriorRows == {[item |-> Item(1, 1), vec |-> TRUE]}

Init ==
  /\ tables = [t \in Tables |-> [m \in Merchants |-> PriorRows]]
  /\ last = NoLast
  /\ runs = 0
  /\ embedCall = IdleEmbed
  /\ split = IdleSplit
  /\ MoreIdle

Next == ConvertDocuments \/ ImportProducts

Spec == Init /\ [][Next]_vars

\* =================================================================
\* Properties of an ingestion run (specification Spec)
\* =================================================================

\* rows of the run's merchant in the run's destination table
TargetRows == IF last.kind \in Tables THEN tables[last.kind][last.m] ELSE {}

LogHas(op) == \E i \in DOMAIN last.log : last.log[i] = op

\* C1: a run that fails, before the transaction or between the DELETE and
\* the commit, leaves the merchant's stored rows exactly as they were.
C1_FailedRunKeepsRows ==
  (last.kind \in Tables /\ last.failed) => TargetRows = last.before

\* an INSERT raises after the DELETE and an earlier INSERT went through
C1_Witness ==
  /\ last.kind \in Tables /\ last.tx_failed /\ last.before # {}
  /\ \E d, i, j \in DOMAIN last.log :
       /\ d < i /\ i < j
       /\ last.log[d] = "delete" /\ last.log[i] = "insert" /\ last.log[j] = "insert"
  /\ LogHas("rollback")
  /\ TargetRows = last.before

\* C2 (as claimed): after every run that returns normally the destination
\* table holds for the merchant exactly the items produced by this run and
\* no row of an earlier run.  Stated here for the runs in which no step
\* raised and no embedding came back None, which the claim covers too.
C2_FullRefresh ==
  (last.kind \in Tables /\ last.outcome = "returned"
     /\ ~last.failed /\ last.unembedded = {})
    => {r.item : r \in TargetRows} = last.items

\* C3 (as claimed): the number of rows committed equals the number of
\* non-empty items whatever the pattern of embedding failures.
C3_AbsentEmbeddingStillStored ==
  (last.kind \in Tables /\ last.committed)
    => Cardinality(TargetRows) = Cardinality(last.items)

C5_StorageFailurePropagates ==
  last.tx_failed => last.outcome = "raised"

\* C28 (as claimed): the count a document run reports as chunks_stored is
\* the number of chunk rows the run committed for the merchant, and 0 when
\* its transaction was rolled back.
C28_CountIsCommittedRows ==
  last.kind = DocTable =>
    last.count = IF last.committed THEN Cardinality(tables[DocTable][last.m]) ELSE 0

\* =================================================================
\* One call of the embedding batcher (specification SpecEmbed)
\* =================================================================

LongText == MaxEmbedChars + 1

EmbedInputs ==
  { [fn |-> "none", texts |-> [i \in 1..n |-> Text(i, IF i \in long THEN LongText ELSE 3)],
     bad |-> bad, result |-> << >>, calls |-> << >>, done |-> FALSE] :
      n \in 0..MaxTexts, long \in {{}, {2}},
      bad \in SUBSET {2, batch_size + 1, 2 * batch_size + 1} }

InitEmbed ==
  /\ tables = [t \in Tables |-> [m \in Merchants |-> PriorRows]]
  /\ last = NoLast
  /\ runs = 0
  /\ embedCall \in {e \in EmbedInputs : e.bad \subseteq 1..Len(e.texts)}
  /\ split = IdleSplit
  /\ MoreIdle

GenerateAllEmbeddings ==
  /\ ~embedCall.done
  /\ embedCall' = [embedCall EXCEPT
                     !.fn = "all", !.done = TRUE,
                     !.result = generate_all_embeddings(embedCall.texts, embedCall.bad),
                     !.calls = embedding_calls_from(embedCall.texts, embedCall.bad, 0)]
  /\ UNCHANGED <<tables, last, runs, split>>
  /\ UNCHANGED moreVars

\* the embedding loop of _store_document_embeddings over the chunk texts
EmbedChunks ==
  /\ ~embedCall.done
  /\ embedCall' = [embedCall EXCEPT
                     !.fn = "chunks", !.done = TRUE,
                     !.result = chunk_embeddings_from(embedCall.texts, embedCall.bad, 0),
                     !.calls = chunk_calls_from(embedCall.texts, embedCall.bad, 0)]
  /\ UNCHANGED <<tables, last, runs, split>>
  /\ UNCHANGED moreVars

GenerateEmbeddingsBatch ==
  /\ ~embedCall.done
  /\ Len(embedCall.texts) <= batch_size
  /\ embedCall' = [embedCall EXCEPT
                     !.fn = "batch", !.done = TRUE,
                     !.result = generate_embeddings_batch(embedCall.texts, embedCall.bad),
                     !.calls = <<ServiceCall(embedCall.texts, embedCall.bad)>>]
  /\ UNCHANGED <<tables, last, runs, split>>
  /\ UNCHANGED moreVars

NextEmbed == GenerateAllEmbeddings \/ GenerateEmbeddingsBatch \/ EmbedChunks

SpecEmbed == InitEmbed /\ [][NextEmbed]_vars

\* the sub-batch of position i holds a text the service cannot embed
SubBatchFailed(i) ==
  \E j \in DOMAIN embedCall.texts :
    /\ (j - 1) \div batch_size = (i - 1) \div batch_size
    /\ embedCall.texts[j].id \in embedCall.bad

\* C6: the batcher returns one entry per input, in input order; the entries
\* of a failed sub-batch are all None, the others are the vectors of their
\* (truncated) input texts.
C6_BatcherKeepsLengthAndOrder ==
  (embedCall.done /\ embedCall.fn = "all") =>
    /\ Len(embedCall.result) = Len(embedCall.texts)
    /\ \A i \in DOMAIN embedCall.texts :
         embedCall.result[i] = IF SubBatchFailed(i) THEN None
                               ELSE Vec(Truncate(embedCall.texts[i]))

C6_Witness ==
  /\ embedCall.done /\ embedCall.fn = "all"
  /\ Len(embedCall.texts) = 2 * batch_size + 1
  /\ embedCall.bad = {batch_size + 1}
  /\ embedCall.result[batch_size] # None
  /\ embedCall.result[batch_size + 1] = None
  /\ embedCall.result[2 * batch_size + 1] # None

ThreeTexts == embedCall.done /\ Len(embedCall.texts) = 3

\* C7 (as claimed): with three texts of which the second fails, the result
\* is the vector of the first, None, the vector of the third.
C7_SecondItemNoneOthersKept ==
  (ThreeTexts /\ embedCall.bad = {2}) =>
    embedCall.result = << Vec(Truncate(embedCall.texts[1])), None,
                          Vec(Truncate(embedCall.texts[3])) >>

\* C7 (amended): three texts travel in one service call, so the result has
\* three entries in input order that are all None when the call fails (for
\* instance because of the second text) and all vectors when it succeeds.
C7_ThreeTextsAllOrNothing ==
  ThreeTexts =>
    /\ Len(embedCall.result) = 3
    /\ \A i \in 1..3 :
         embedCall.result[i] = IF embedCall.bad # {} THEN None
                               ELSE Vec(Truncate(embedCall.texts[i]))

C7_Witness ==
  /\ ThreeTexts /\ embedCall.fn = "batch" /\ embedCall.bad = {2}
  /\ embedCall.result = <<None, None, None>>

\* C22: every call of the embedding service carries at most 25 texts; the
\* calls of one run of either loop are issued in input order, call k
\* carrying items 25(k-1)+1 .. 25k of the input (fewer in the last call),
\* one after the other, and a call that failed is followed by the calls of
\* the remaining sub-batches all the same.
C22_SequentialSubBatches ==
  (embedCall.done /\ embedCall.fn \in {"all", "chunks"}) =>
    LET n     == Len(embedCall.texts)
        calls == embedCall.calls
    IN  /\ Len(calls) = (n + batch_size - 1) \div batch_size
        /\ \A k \in DOMAIN calls :
             /\ Len(calls[k].ids) <= batch_size
             /\ calls[k].ids =
                  [j \in 1..(Min(k * batch_size, n) - (k - 1) * batch_size) |->
                     embedCall.texts[(k - 1) * batch_size + j].id]
             /\ calls[k].raised = SubBatchFailed((k - 1) * batch_size + 1)

\* 51 texts went out in three calls of 25, 25 and 1 although the first failed
C22_Witness ==
  /\ embedCall.done /\ embedCall.fn = "all"
  /\ Len(embedCall.texts) = 2 * batch_size + 1
  /\ Len(embedCall.calls) = 3
  /\ embedCall.calls[1].raised
  /\ ~embedCall.calls[2].raised
  /\ Len(embedCall.calls[3].ids) = 1

\* =================================================================
\* Chunker: DocumentConverter._split_text
\* =================================================================

Chars == {"a", " ", ".", "\n"}
IsSpace(c) == c \in {" ", "\n"}

StartsWith(s, d) == Len(s) >= Len(d) /\ SubSeq(s, 1, Len(d)) = d
Drop(s, k) == SubSeq(s, k + 1, Len(s))

\* str.split(sep): cut at the leftmost occurrence of sep, then split the rest
RECURSIVE str_split(_, _)
str_split(s, sep) ==
  LET at == {i \in 1..(Len(s) - Len(sep) + 1) : SubSeq(s, i, i + Len(sep) - 1) = sep}
  IN  IF at = {} THEN <<s>>
      ELSE LET i == CHOOSE j \in at : \A k \in at : j <= k
           IN  <<SubSeq(s, 1, i - 1)>> \o str_split(Drop(s, i + Len(sep) - 1), sep)

\* str.strip()
RECURSIVE str_lstrip(_)
str_lstrip(s) == IF s # << >> /\ IsSpace(Head(s)) THEN str_lstrip(Tail(s)) ELSE s

RECURSIVE str_rstrip(_)
str_rstrip(s) ==
  IF s # << >> /\ IsSpace(s[Len(s)]) THEN str_rstrip(SubSeq(s, 1, Len(s) - 1)) ELSE s

str_strip(s) == str_rstrip(str_lstrip(s))

\* str.find(c): 0-based index of the first c, -1 when there is none
str_find(s, c) ==
  LET at == {i \in DOMAIN s : s[i] = c}
  IN  IF at = {} THEN -1 ELSE (CHOOSE i \in at : \A j \in at : i <= j) - 1

\* "if current_chunk: segments.append(current_chunk.strip())"
flush(segments, current_chunk) ==
  IF current_chunk # << >> THEN Append(segments, str_strip(current_chunk)) ELSE segments

\* the loop over the sentences of a paragraph that is longer than max_size
RECURSIVE sentence_loop(_, _, _, _)
sentence_loop(sentences, k, st, max_size) ==
  IF k > Len(sentences) THEN st
  ELSE LET sentence == sentences[k]
       IN  sentence_loop(sentences, k + 1,
             IF Len(st.current_chunk) + Len(sentence) + 2 <= max_size
             THEN [st EXCEPT !.current_chunk = @ \o sentence \o <<".", " ">>]
             ELSE [segments |-> flush(st.segments, st.current_chunk),
                   current_chunk |-> sentence \o <<".", " ">>],
             max_size)

\* the loop over the paragraphs of the text
RECURSIVE paragraph_loop(_, _, _, _)
paragraph_loop(paragraphs, k, st, max_size) ==
  IF k > Len(paragraphs) THEN st
  ELSE LET paragraph == paragraphs[k]
       IN  paragraph_loop(paragraphs, k + 1,
             IF Len(st.current_chunk) + Len(paragraph) + 2 <= max_size
             THEN [st EXCEPT !.current_chunk = @ \o paragraph \o <<"\n", "\n">>]
             ELSE IF Len(paragraph) > max_size
                  THEN sentence_loop(str_split(paragraph, <<".", " ">>), 1,
                         [segments |-> flush(st.segments, st.current_chunk),
                          current_chunk |-> << >>],
                         max_size)
                  ELSE [segments |-> flush(st.segments, st.current_chunk),
                        current_chunk |-> paragraph \o <<"\n", "\n">>],
             max_size)

\* first pass: segments on paragraph and sentence boundaries
split_segments(text, max_size) ==
  LET st == paragraph_loop(str_split(text, <<"\n", "\n">>), 1,
                           [segments |-> << >>, current_chunk |-> << >>], max_size)
  IN  flush(st.segments, st.current_chunk)

\* the tail of the previous segment that is prepended to the next one
overlap_text_of(prev, overlap) ==
  LET tail == IF Len(prev) > overlap
              THEN SubSeq(prev, Len(prev) - overlap + 1, Len(prev))
              ELSE prev
      space_idx == str_find(tail, " ")
  IN  IF space_idx > 0 THEN Drop(tail, space_idx + 1) ELSE tail

\* overlap_text + " " + segment, cut to max_size, before the final strip
overlapped_raw(prev, segment, max_size, overlap) ==
  LET chunk == overlap_text_of(prev, overlap) \o <<" ">> \o segment
  IN  IF Len(chunk) > max_size THEN SubSeq(chunk, 1, max_size) ELSE chunk

split_text(text, max_size, overlap) ==
  IF Len(text) <= max_size THEN <<text>>
  ELSE LET segments == split_segments(text, max_size)
       IN  IF overlap <= 0 \/ Len(segments) <= 1 THEN segments
           ELSE [i \in 1..Len(segments) |->
                   IF i = 1 THEN segments[1]
                   ELSE str_strip(overlapped_raw(segments[i - 1], segments[i],
                                                 max_size, overlap))]

\* ------------------------------------------- one call of the chunker

Texts == UNION {[1..k -> Chars] : k \in 0..MaxLen}

InitChunk ==
  /\ tables = [t \in Tables |-> [m \in Merchants |-> PriorRows]]
  /\ last = NoLast
  /\ runs = 0
  /\ embedCall = IdleEmbed
  /\ split \in [text : Texts, max_size : 1..MaxChunkSize, overlap : 0..MaxOverlap,
                chunks : {<< >>}, done : {FALSE}]
  /\ MoreIdle

SplitText ==
  /\ ~split.done
  /\ split' = [split EXCEPT !.done = TRUE,
                            !.chunks = split_text(split.text, split.max_size, split.overlap)]
  /\ UNCHANGED <<tables, last, runs, embedCall>>
  /\ UNCHANGED moreVars

NextChunk == SplitText

SpecChunk == InitChunk /\ [][NextChunk]_vars

\* ------------------------------------------- properties of the chunker

\* str.split(): the words of a string
RECURSIVE str_words_acc(_, _)
str_words_acc(s, cur) ==
  LET word == IF cur # << >> THEN <<cur>> ELSE << >>
  IN  IF s = << >> THEN word
      ELSE IF IsSpace(Head(s)) THEN word \o str_words_acc(Tail(s), << >>)
      ELSE str_words_acc(Tail(s), Append(cur, Head(s)))

str_words(s) == str_words_acc(s, << >>)

NoDots(s) == SelectSeq(s, LAMBDA c : c # ".")

RECURSIVE Flatten(_)
Flatten(ss) == IF ss = << >> THEN << >> ELSE Head(ss) \o Flatten(Tail(ss))

\* the sentences of the text: its paragraphs split on ". "
Sentences(text) ==
  UNION { Range(str_split(p, <<".", " ">>)) : p \in Range(str_split(text, <<"\n", "\n">>)) }

\* a sentence as it may appear as a chunk: stripped, with or without the
\* period that ended it
AsChunk(sentence) ==
  {str_strip(sentence), str_strip(sentence) \o <<".">>, str_strip(sentence \o <<".">>)}

\* C8 (as claimed): every chunk has at most max_size characters, except
\* that a sentence longer than max_size is returned as its own chunk,
\* unmodified.
C8_ChunkWithinMaxSize ==
  split.done =>
    /\ \A i \in DOMAIN split.chunks :
         \/ Len(split.chunks[i]) <= split.max_size
         \/ \E s \in Sentences(split.text) : split.chunks[i] \in AsChunk(s)
    /\ \A s \in Sentences(split.text) :
         Len(str_strip(s)) > split.max_size
           => \E i \in DOMAIN split.chunks : split.chunks[i] \in AsChunk(s)

\* the returned chunks with the injected overlap prefix removed
WithoutOverlap ==
  LET segments == split_segments(split.text, split.max_size)
      injected(i) == str_lstrip(overlap_text_of(segments[i - 1], split.overlap) \o <<" ">>)
  IN  [i \in DOMAIN split.chunks |->
         IF i = 1 \/ split.overlap <= 0 \/ Len(split.text) <= split.max_size
         THEN split.chunks[i]
         ELSE Drop(split.chunks[i], Min(Len(injected(i)), Len(split.chunks[i])))]

\* C9 (as claimed): the chunks without their overlap prefixes, concatenated
\* in order, give all the words of the text, each once and in order
\* (periods are left out of the comparison).
C9_ChunksKeepAllWords ==
  split.done =>
    Flatten([i \in DOMAIN split.chunks |-> str_words(NoDots(WithoutOverlap[i]))])
      = str_words(NoDots(split.text))

\* C10 (as claimed): each chunk after the first starts with a suffix of at
\* most `overlap` characters of the chunk before it, and that suffix starts
\* at a word boundary of the chunk before it.
C10_OverlapStartsAtWordBoundary ==
  (split.done /\ split.overlap > 0) =>
    \A i \in 2..Len(split.chunks) :
      LET prev == split.chunks[i - 1]
      IN  prev # << >> =>
            \E k \in 1..Min(split.overlap, Len(prev)) :
              /\ StartsWith(split.chunks[i], Drop(prev, Len(prev) - k))
              /\ (k = Len(prev) \/ IsSpace(prev[Len(prev) - k]))

\* =================================================================
\* Catalog normalizer (specification SpecNorm)
\* =================================================================

\* Cells are strings (sequences of characters); a row has the columns the
\* normalizers read. In the one-row-per-product modes `handle` is the first
\* non-empty of the handle / slug / url columns.
Default == <<"D", "e", "f", "a", "u", "l", "t">>

\* _get_col: the stripped value of the column ("" when absent or blank)
get_col(row, key) == str_strip(row[key])

\* ord() of the characters used
CodePoint(c) ==
  CASE c = " " -> 32 [] c = "&" -> 38 [] c = "-" -> 45 [] c = "0" -> 48
    [] c = "9" -> 57 [] c = "A" -> 65 [] c = "D" -> 68 [] c = "M" -> 77
    [] c = "S" -> 83 [] c = "T" -> 84 [] c = "a" -> 97 [] c = "b" -> 98
    [] c = "e" -> 101 [] c = "f" -> 102 [] c = "i" -> 105 [] c = "l" -> 108
    [] c = "t" -> 116 [] c = "u" -> 117 [] c = "z" -> 122
    [] OTHER -> 0

\* a < b for Python strings
RECURSIVE str_lt(_, _)
str_lt(a, b) ==
  IF b = << >> THEN FALSE
  ELSE IF a = << >> THEN TRUE
  ELSE IF Head(a) = Head(b) THEN str_lt(Tail(a), Tail(b))
  ELSE CodePoint(Head(a)) < CodePoint(Head(b))

\* sorted(values)
RECURSIVE sorted(_)
sorted(values) ==
  IF values = {} THEN << >>
  ELSE LET least == CHOOSE v \in values : \A w \in values : w = v \/ str_lt(v, w)
       IN  <<least>> \o sorted(values \ {least})

\* str.lower()
lower(s) == [i \in DOMAIN s |-> IF s[i] = "A" THEN "a" ELSE s[i]]

\* re.sub(r"[^a-z0-9]+", "-", s)
IsSlugChar(c) == c \in {"a", "b", "e", "f", "i", "l", "t", "u", "z", "0", "9"}

RECURSIVE re_sub_runs(_, _)
re_sub_runs(s, in_run) ==
  IF s = << >> THEN << >>
  ELSE IF IsSlugChar(Head(s)) THEN <<Head(s)>> \o re_sub_runs(Tail(s), FALSE)
  ELSE (IF in_run THEN << >> ELSE <<"-">>) \o re_sub_runs(Tail(s), TRUE)

\* str.strip("-")
RECURSIVE strip_hyphens(_)
strip_hyphens(s) ==
  IF s = << >> THEN s
  ELSE IF Head(s) = "-" THEN strip_hyphens(Tail(s))
  ELSE IF s[Len(s)] = "-" THEN strip_hyphens(SubSeq(s, 1, Len(s) - 1))
  ELSE s

slugify(title) == strip_hyphens(re_sub_runs(lower(title), FALSE))

\* `a or b` on strings
or_else(a, b) == IF a # << >> THEN a ELSE b

\* Synthetic ids, written relative to 9900000000000.
BASE_PRODUCT_ID == 1
BASE_VARIANT_ID == 100001

\* product_id = BASE_PRODUCT_ID + idx: idx is the position in this call's
\* rows or groups; products of earlier calls play no part
product_id_counter(idx, earlier) == BASE_PRODUCT_ID + earlier + idx

product_id_of(idx, earlier) == BASE_PRODUCT_ID + idx

\* ------------------------------------ _build_shopify_products_from_csv

\* keys of `groups`, in insertion order: the handles in order of first
\* appearance; rows without a handle are left out
group_handles(rows, seen) ==
  LET firsts == {k \in DOMAIN rows :
                   /\ get_col(rows[k], "handle") # << >>
                   /\ get_col(rows[k], "handle") \notin Range(seen)
                   /\ \A j \in 1..(k - 1) :
                        get_col(rows[j], "handle") # get_col(rows[k], "handle")}
      nth(n) == CHOOSE k \in firsts : Cardinality({j \in firsts : j < k}) = n - 1
  IN  seen \o [n \in 1..Cardinality(firsts) |-> get_col(rows[nth(n)], "handle")]

group_rows_of(rows, handle) == SelectSeq(rows, LAMBDA row : get_col(row, "handle") = handle)

\* the options of a group (option position 1): named by the first row that
\* names it, with the sorted union of the values
options_of(group_rows) ==
  LET named  == {k \in DOMAIN group_rows : get_col(group_rows[k], "optname") # << >>}
      values == {get_col(group_rows[k], "optval") : k \in DOMAIN group_rows} \ {<< >>}
  IN  IF named = {} THEN << >>
      ELSE LET k1 == CHOOSE k \in named : \A j \in named : k <= j
           IN  << [name |-> get_col(group_rows[k1], "optname"), values |-> sorted(values)] >>

\* a variant for every row of the group, priced or not
variants_of_every_row(group_rows, idx) ==
  [v \in DOMAIN group_rows |->
     [ id      |-> BASE_VARIANT_ID + idx * 100 + (v - 1),
       option1 |-> get_col(group_rows[v], "optval"),
       price   |-> get_col(group_rows[v], "price") ]]

\* one variant per row that has a Variant Price
variants_of(group_rows, idx) ==
  LET priced == SelectSeq(group_rows, LAMBDA row : get_col(row, "price") # << >>)
  IN  [v \in DOMAIN priced |->
         [ id      |-> BASE_VARIANT_ID + idx * 100 + (v - 1),
           option1 |-> get_col(priced[v], "optval"),
           price   |-> get_col(priced[v], "price") ]]

build_shopify_products_from_csv(rows, earlier) ==
  LET handles == group_handles(rows, << >>)
  IN  [k \in DOMAIN handles |->
         LET group_rows == group_rows_of(rows, handles[k])
             idx        == k - 1
         IN  [ id       |-> product_id_of(idx, earlier),
               title    |-> get_col(group_rows[1], "title"),
               handle   |-> handles[k],
               options  |-> options_of(group_rows),
               variants |-> variants_of(group_rows, idx) ]]

\* ------------------------- one row per product (generic shopify,
\* woocommerce, squarespace)

\* 0-based positions of the rows that have a title
titled(rows) == SelectSeq([i \in DOMAIN rows |-> i - 1],
                          LAMBDA idx : get_col(rows[idx + 1], "title") # << >>)

\* the handle column verbatim, else the slugified title
handle_of(row) == or_else(get_col(row, "handle"), slugify(get_col(row, "title")))

\* the variants a platform's import gives a one-row product: shopify a
\* "Default" variant in raw_data, woocommerce "variations": [], squarespace
\* the default row it inserts into squarespace_variants
row_variants(platform, row, idx) ==
  LET price == or_else(get_col(row, "price"), <<"0">>)
  IN  CASE platform = "shopify" ->
             << [id |-> BASE_VARIANT_ID + idx * 100, option1 |-> Default, price |-> price] >>
        [] platform = "squarespace" ->
             << [id |-> BASE_PRODUCT_ID + idx, option1 |-> Default, price |-> price] >>
        [] OTHER -> << >>

row_options(platform) ==
  IF platform = "shopify" THEN << [name |-> <<"T", "i", "t", "l", "e">>, values |-> <<Default>>] >>
  ELSE << >>

build_products_generic(platform, rows, earlier) ==
  LET kept == titled(rows)
  IN  [k \in DOMAIN kept |->
         LET idx == kept[k]
             row == rows[idx + 1]
         IN  [ id       |-> product_id_of(idx, earlier),
               title    |-> get_col(row, "title"),
               handle   |-> handle_of(row),
               options  |-> row_options(platform),
               variants |-> row_variants(platform, row, idx) ]]

\* the products a platform's import builds from the parsed rows
normalize(platform, grouped, rows, earlier) ==
  IF platform = "shopify" /\ grouped
  THEN build_shopify_products_from_csv(rows, earlier)
  ELSE build_products_generic(platform, rows, earlier)

\* ------------------------------------------- one call of the normalizer

MaxRows == 3

\* rows of a grouped export: a variant row naming its option, a variant row
\* leaving the option name to the group's other rows, an image row
GroupedRows ==
  { [handle |-> h, title |-> <<"A", " ", "b">>, optname |-> o[1], optval |-> o[2], price |-> o[3]] :
      h \in {<< >>, <<"a">>, <<"a", " ", "b">>},
      o \in { << <<"z">>, <<"S">>, <<"9">> >>, << <<"z">>, <<"M">>, <<"9">> >>,
              << << >>, <<"M">>, <<"9">> >>, << << >>, << >>, << >> >> } }

GenericRows ==
  { [handle |-> h, title |-> t, optname |-> << >>, optval |-> << >>, price |-> <<"9">>] :
      h \in {<< >>, <<"a", " ", "b">>},
      t \in {<< >>, <<"A", " ", "b">>, <<"&">>} }

RowLists(rows) == UNION {[1..k -> rows] : k \in 0..MaxRows}

InitNorm ==
  /\ tables = [t \in Tables |-> [m \in Merchants |-> PriorRows]]
  /\ last = NoLast
  /\ runs = 0
  /\ embedCall = IdleEmbed
  /\ split = IdleSplit
  /\ stores = IdleStores
  /\ conv = IdleConv /\ pool = IdlePool /\ loop = IdleLoop
  /\ LateIdle
  /\ norm \in
       { [IdleNorm EXCEPT !.platform = "shopify", !.grouped = TRUE, !.rows = rows] :
           rows \in RowLists(GroupedRows) }
       \cup
       { [IdleNorm EXCEPT !.platform = platform, !.rows = rows] :
           platform \in Platforms, rows \in RowLists(GenericRows) }

\* the import normalizes the parsed rows
Normalize ==
  /\ ~norm.done
  /\ norm' = [norm EXCEPT
                !.done = TRUE,
                !.products = normalize(norm.platform, norm.grouped, norm.rows, 0)]
  /\ UNCHANGED <<coreVars, stores, conv, pool, loop>>
  /\ UNCHANGED lateVars

\* a second import of the same rows by the same process
NormalizeAgain ==
  /\ norm.done /\ norm.again = << >> /\ norm.products # << >>
  /\ norm' = [norm EXCEPT
                !.earlier = Len(norm.products),
                !.again = normalize(norm.platform, norm.grouped, norm.rows, Len(norm.products))]
  /\ UNCHANGED <<coreVars, stores, conv, pool, loop>>
  /\ UNCHANGED lateVars

NextNorm == Normalize \/ NormalizeAgain

SpecNorm == InitNorm /\ [][NextNorm]_vars

\* ------------------------------------------- properties of the normalizer

\* C11 (as claimed): every product the normalizer produces has at least one
\* variant, on every platform and in both modes.
C11_EveryProductHasVariant ==
  norm.done => \A k \in DOMAIN norm.products : Len(norm.products[k].variants) >= 1

\* characters allowed unescaped in a URL path segment
UrlSafe(s) == \A i \in DOMAIN s : s[i] \in {"a", "b", "z", "0", "9", "-", "_", ".", "~"}

\* C12 (as claimed): every product's handle is non-empty and URL-safe,
\* whether it comes from the handle column or from the slugified title.
C12_HandleNonEmptyUrlSafe ==
  norm.done =>
    \A k \in DOMAIN norm.products :
      norm.products[k].handle # << >> /\ UrlSafe(norm.products[k].handle)

\* position (from 0) of the group of `handle`: the number of other handles
\* first seen before it
GroupIndex(rows, handle) ==
  LET first == CHOOSE j \in DOMAIN rows :
                 /\ get_col(rows[j], "handle") = handle
                 /\ \A i \in 1..(j - 1) : get_col(rows[i], "handle") # handle
  IN  Cardinality({get_col(rows[i], "handle") : i \in 1..(first - 1)} \ {<< >>})

\* position (from 0) in the rows of the k-th row that has a title
RowIndex(rows, k) ==
  CHOOSE idx \in 0..(Len(rows) - 1) :
    /\ get_col(rows[idx + 1], "title") # << >>
    /\ Cardinality({j \in 1..(idx + 1) : get_col(rows[j], "title") # << >>}) = k

Ids(products) ==
  [k \in DOMAIN products |->
     [ id |-> products[k].id,
       variants |-> [v \in DOMAIN products[k].variants |-> products[k].variants[v].id] ]]

\* C13: product ids are BASE_PRODUCT_ID plus the row index (one row per
\* product) or the handle-group index (grouped export), no two products of a
\* run share one, and normalizing the same rows again gives the same product
\* and variant ids.
C13_IdsFollowRowOrder ==
  norm.done =>
    /\ \A k \in DOMAIN norm.products :
         norm.products[k].id =
           BASE_PRODUCT_ID + (IF norm.grouped
                              THEN GroupIndex(norm.rows, norm.products[k].handle)
                              ELSE RowIndex(norm.rows, k))
    /\ \A j, k \in DOMAIN norm.products :
         j # k => norm.products[j].id # norm.products[k].id
    /\ norm.again # << >> => Ids(norm.again) = Ids(norm.products)

\* a second normalization of rows whose first row has no title
C13_Witness ==
  /\ norm.again # << >>
  /\ ~norm.grouped
  /\ Len(norm.products) >= 2
  /\ norm.products[1].id = BASE_PRODUCT_ID + 1

GroupOf(handle) == group_rows_of(norm.rows, handle)

Strictly(values) == \A i \in 1..(Len(values) - 1) : str_lt(values[i], values[i + 1])

OneProductPerHandle ==
  /\ Len(norm.products) =
       Cardinality({get_col(norm.rows[j], "handle") : j \in DOMAIN norm.rows} \ {<< >>})
  /\ \A j, k \in DOMAIN norm.products :
       j # k => norm.products[j].handle # norm.products[k].handle

\* C14 (as claimed): in a grouped export the rows sharing a handle become one
\* product, with one variant per row and one option listing the sorted union
\* of the rows' option values.
C14_OneVariantPerRow ==
  (norm.done /\ norm.grouped) =>
    /\ OneProductPerHandle
    /\ \A k \in DOMAIN norm.products :
         LET p == norm.products[k]
             G == GroupOf(p.handle)
             values == {get_col(G[j], "optval") : j \in DOMAIN G} \ {<< >>}
         IN  /\ Len(p.variants) = Len(G)
             /\ values # {} =>
                  /\ Len(p.options) = 1
                  /\ Range(p.options[1].values) = values
                  /\ Strictly(p.options[1].values)

RowS == [handle |-> <<"a">>, title |-> <<"A", " ", "b">>,
         optname |-> <<"z">>, optval |-> <<"S">>, price |-> <<"9">>]
RowM == [RowS EXCEPT !.optval = <<"M">>]
ImageRow == [RowS EXCEPT !.optname = << >>, !.optval = << >>, !.price = << >>]

\* C14 (amended): the rows sharing a handle become one product; it has one
\* variant per row that carries a price, in row order; an option that some
\* row of the group names lists the sorted union of the group's values, an
\* option no row names is left out; two rows of one handle with values S
\* and M give one product, two variants and the values M, S.
C14_OneVariantPerPricedRow ==
  (norm.done /\ norm.grouped) =>
    /\ OneProductPerHandle
    /\ \A k \in DOMAIN norm.products :
         LET p == norm.products[k]
             G == GroupOf(p.handle)
             priced == SelectSeq(G, LAMBDA row : get_col(row, "price") # << >>)
             values == {get_col(G[j], "optval") : j \in DOMAIN G} \ {<< >>}
             named  == \E j \in DOMAIN G : get_col(G[j], "optname") # << >>
         IN  /\ Len(p.variants) = Len(priced)
             /\ \A v \in DOMAIN priced : p.variants[v].option1 = get_col(priced[v], "optval")
             /\ Len(p.options) = IF named THEN 1 ELSE 0
             /\ named => /\ Range(p.options[1].values) = values
                         /\ Strictly(p.options[1].values)
    /\ norm.rows = <<RowS, RowM>> =>
         /\ Len(norm.products) = 1
         /\ Len(norm.products[1].variants) = 2
         /\ Len(norm.products[1].options) = 1
         /\ norm.products[1].options[1].values = << <<"M">>, <<"S">> >>

\* the rows S, image, M of one handle: one product, two variants, [M, S]
C14_Witness ==
  /\ norm.done /\ norm.grouped
  /\ norm.rows = <<RowS, ImageRow, RowM>>
  /\ Len(norm.products) = 1
  /\ Len(norm.products[1].variants) = 2
  /\ norm.products[1].options[1].values = << <<"M">>, <<"S">> >>

\* =================================================================
\* Store-parent rows (specification SpecStore)
\* =================================================================

MaxCalls == 3

\* shop_url as given by the caller (NoUrl is None)
Urls ==
  { NoUrl,
    [scheme |-> "https://", host |-> "shop.com", slash |-> FALSE],
    [scheme |-> "http://", host |-> "shop.com", slash |-> TRUE] }

\* shop_url or f"https://{merchant_id}.com"
url_or_default(merchant_id, shop_url) ==
  IF shop_url = NoUrl
  THEN [scheme |-> "https://", host |-> merchant_id \o ".com", slash |-> FALSE]
  ELSE shop_url

\* shop_url.replace("https://", "").replace("http://", "").rstrip("/")
domain_of(shop_url) == shop_url.host

\* the url as stored in store_url / site_url
url_text(shop_url) == shop_url.scheme \o shop_url.host \o (IF shop_url.slash THEN "/" ELSE "")

\* Unique columns of the store tables: shop_domain and merchant_id for
\* shopify_stores, merchant_id for the other two.
StoreRows(rows, platform) == {r \in rows : r.platform = platform}

\* INSERT .. ON CONFLICT (shop_domain) DO UPDATE SET merchant_id = ..
\* followed by SELECT id .. WHERE shop_domain
ensure_shopify(st, merchant_id, domain) ==
  LET mine   == {r \in StoreRows(st.rows, "shopify") : r.merchant = merchant_id}
      same   == {r \in StoreRows(st.rows, "shopify") : r.key = domain}
      id     == st.next_id["shopify"]
  IN  IF same # {}
      THEN LET row == CHOOSE r \in same : TRUE
           IN  IF \E r \in mine : r # row
               THEN [raised |-> TRUE, id |-> 0, rows |-> st.rows, next_id |-> st.next_id]
               ELSE [ raised |-> FALSE, id |-> row.id,
                      rows |-> (st.rows \ {row}) \cup {[row EXCEPT !.merchant = merchant_id]},
                      \* the sequence is advanced by the insert that conflicted
                      next_id |-> [st.next_id EXCEPT !["shopify"] = id + 1] ]
      ELSE IF mine # {}
           THEN [ raised |-> TRUE, id |-> 0, rows |-> st.rows,
                  next_id |-> [st.next_id EXCEPT !["shopify"] = id + 1] ]
           ELSE [ raised |-> FALSE, id |-> id,
                  rows |-> st.rows \cup {[platform |-> "shopify", id |-> id,
                                          merchant |-> merchant_id, key |-> domain]},
                  next_id |-> [st.next_id EXCEPT !["shopify"] = id + 1] ]

\* a plain INSERT, which fails on the row that is already there
ensure_by_merchant_plain_insert(st, platform, merchant_id, url) ==
  LET mine == {r \in StoreRows(st.rows, platform) : r.merchant = merchant_id}
      id   == st.next_id[platform]
  IN  [ raised |-> mine # {}, id |-> IF mine # {} THEN 0 ELSE id,
        rows |-> IF mine # {} THEN st.rows
                 ELSE st.rows \cup {[platform |-> platform, id |-> id,
                                      merchant |-> merchant_id, key |-> url]},
        next_id |-> [st.next_id EXCEPT ![platform] = id + 1] ]

\* INSERT .. ON CONFLICT (merchant_id) DO NOTHING followed by
\* SELECT id .. WHERE merchant_id
ensure_by_merchant(st, platform, merchant_id, url) ==
  LET mine == {r \in StoreRows(st.rows, platform) : r.merchant = merchant_id}
      id   == st.next_id[platform]
  IN  IF mine # {}
      THEN [ raised |-> FALSE, id |-> (CHOOSE r \in mine : TRUE).id, rows |-> st.rows,
             next_id |-> [st.next_id EXCEPT ![platform] = id + 1] ]
      ELSE [ raised |-> FALSE, id |-> id,
             rows |-> st.rows \cup {[platform |-> platform, id |-> id,
                                     merchant |-> merchant_id, key |-> url]},
             next_id |-> [st.next_id EXCEPT ![platform] = id + 1] ]

ensure_store_entry(st, merchant_id, platform, shop_url) ==
  LET url == url_or_default(merchant_id, shop_url)
  IN  IF platform = "shopify"
      THEN ensure_shopify(st, merchant_id, domain_of(url))
      ELSE ensure_by_merchant(st, platform, merchant_id, url_text(url))

InitStore ==
  /\ tables = [t \in Tables |-> [m \in Merchants |-> PriorRows]]
  /\ last = NoLast
  /\ runs = 0
  /\ embedCall = IdleEmbed
  /\ split = IdleSplit
  /\ norm = IdleNorm
  /\ stores = IdleStores
  /\ conv = IdleConv /\ pool = IdlePool /\ loop = IdleLoop
  /\ LateIdle

\* import_products up to its commit or rollback, as far as the store tables
\* are concerned: _ensure_store_entry runs in the import's transaction, which
\* commits unless the call or a later statement of the import raises
EnsureStoreEntry ==
  \E m \in Merchants, platform \in Platforms, url \in Urls, later_ok \in BOOLEAN :
    /\ stores.calls < MaxCalls
    /\ \E r \in {ensure_store_entry(stores, m, platform, url)} :
         LET committed == ~r.raised /\ later_ok
         IN  stores' =
               [ rows    |-> IF committed THEN commit(stores.rows, r.rows)
                             ELSE rollback(stores.rows, r.rows),
                 next_id |-> r.next_id,
                 prev    |-> stores.call,
                 call    |-> [ merchant |-> m, platform |-> platform, url |-> url,
                               raised |-> r.raised, committed |-> committed,
                               id |-> r.id, before |-> stores.rows ],
                 calls   |-> stores.calls + 1 ]
    /\ UNCHANGED <<coreVars, norm, conv, pool, loop>>
    /\ UNCHANGED lateVars

NextStore == EnsureStoreEntry

SpecStore == InitStore /\ [][NextStore]_vars

\* C15: a call repeating the merchant, platform and shop URL of the call
\* before it, whose import committed, does not raise, returns the same store
\* id, leaves the store rows as they were and the merchant with exactly one
\* row of that platform.
SameArguments ==
  /\ stores.call.merchant = stores.prev.merchant
  /\ stores.call.platform = stores.prev.platform
  /\ stores.call.url = stores.prev.url

C15_EnsureStoreEntryIdempotent ==
  (stores.prev.committed /\ SameArguments) =>
    /\ ~stores.call.raised
    /\ stores.call.id = stores.prev.id
    /\ stores.rows = stores.call.before
    /\ Cardinality({r \in StoreRows(stores.rows, stores.call.platform) :
                      r.merchant = stores.call.merchant}) = 1

\* three committed calls in a row with the same arguments
C15_Witness ==
  /\ stores.calls = 3
  /\ stores.prev.committed /\ stores.call.committed /\ SameArguments
  /\ stores.call.platform = "shopify"
  /\ stores.call.before # {}
  /\ stores.next_id["shopify"] = 4

\* C19 (as claimed): a run of one merchant leaves the store rows of every
\* other merchant as they were.
C19_OtherMerchantsRowsUntouched ==
  \A r \in stores.call.before : r.merchant # stores.call.merchant => r \in stores.rows

\* C26 (as claimed): when the merchant has a Shopify store row under one
\* domain and the store entry is ensured with another domain that no row
\* has, the call succeeds and returns the id of the merchant's row, which
\* now carries the new domain, and the merchant has exactly one store row.
C26_DomainChangeUpdatesRow ==
  LET c      == stores.call
      domain == domain_of(url_or_default(c.merchant, c.url))
      mine   == {r \in StoreRows(c.before, "shopify") : r.merchant = c.merchant}
      taken  == {r \in StoreRows(c.before, "shopify") : r.key = domain}
  IN  (c.platform = "shopify" /\ mine # {} /\ taken = {}) =>
        /\ ~c.raised
        /\ c.id \in {r.id : r \in mine}
        /\ c.committed =>
             {r \in StoreRows(stores.rows, "shopify") : r.merchant = c.merchant}
               = {[platform |-> "shopify", id |-> c.id, merchant |-> c.merchant,
                   key |-> domain]}

\* =================================================================
\* The document loop of convert_documents (specification SpecConv)
\* =================================================================

MaxPaths == 2

\* A path is its folder, the file name without extension and the extension;
\* with it come what the blob store and the extractor do for it: the file
\* is missing, its download or extraction raises, or it yields n chunks
\* (_split_text returns at least one).
Folders == {"kb/", "kb/old/"}
BaseNames == {<<"a">>, <<"a", " ", "b">>, <<"a", "-", "b">>}
Extensions == {".pdf", ".txt"}
Fates == {"missing", "raises", "one_chunk", "two_chunks"}

DocPaths ==
  [folder : Folders, base_name : BaseNames, ext : Extensions, fate : Fates]

SamePath(p, q) == p.folder = q.folder /\ p.base_name = q.base_name /\ p.ext = q.ext

\* lists of distinct paths
PathLists ==
  { paths \in UNION {[1..k -> DocPaths] : k \in 0..MaxPaths} :
      \A i, j \in DOMAIN paths : i # j => ~SamePath(paths[i], paths[j]) }

\* str(i)
str_of(i) == IF i = 0 THEN <<"0">> ELSE IF i = 1 THEN <<"1">> ELSE <<"2">>

\* re.sub(r'[^a-zA-Z0-9-_]', '-', s)
IsIdChar(c) == c \in {"a", "b", "c", "d", "o", "0", "1", "2", "-", "_"}
sanitize_chars(s) == [i \in DOMAIN s |-> IF IsIdChar(s[i]) THEN s[i] ELSE "-"]

\* re.sub(r'-+', '-', s)
RECURSIVE collapse_hyphens(_)
collapse_hyphens(s) ==
  IF Len(s) <= 1 THEN s
  ELSE IF s[1] = "-" /\ s[2] = "-" THEN collapse_hyphens(Tail(s))
  ELSE <<s[1]>> \o collapse_hyphens(Tail(s))

\* the document id of chunk i of a file
sanitized_id(base_name, i) ==
  LET original_id == base_name \o <<"_">> \o str_of(i)
      stripped    == strip_hyphens(collapse_hyphens(sanitize_chars(original_id)))
  IN  IF stripped = << >> THEN <<"d", "o", "c", "-">> \o str_of(i) ELSE stripped

chunks_in(path) == IF path.fate = "two_chunks" THEN 2 ELSE 1

\* _convert_single_document: the documents of a path that converts
convert_single_document(path) ==
  [i \in 1..chunks_in(path) |->
     [ id |-> sanitized_id(path.base_name, i - 1), source |-> path, chunk_index |-> i - 1 ]]

\* the loop stopped by the first file whose conversion raises
RECURSIVE convert_loop_fail_fast(_, _)
convert_loop_fail_fast(paths, acc) ==
  IF paths = << >> THEN acc
  ELSE LET doc_path == Head(paths)
       IN  IF doc_path.fate = "missing"
           THEN convert_loop_fail_fast(Tail(paths),
                  [acc EXCEPT !.skipped_files = Append(@, doc_path)])
           ELSE IF doc_path.fate = "raises"
           THEN [acc EXCEPT !.raised = TRUE]
           ELSE convert_loop_fail_fast(Tail(paths),
                  [acc EXCEPT !.documents = @ \o convert_single_document(doc_path)])

\* for doc_path in document_paths: skip the missing file and the file whose
\* conversion raises, extend all_documents with the documents of the others
RECURSIVE convert_loop(_, _)
convert_loop(paths, acc) ==
  IF paths = << >> THEN acc
  ELSE LET doc_path == Head(paths)
       IN  IF doc_path.fate \in {"missing", "raises"}
           THEN convert_loop(Tail(paths),
                  [acc EXCEPT !.skipped_files = Append(@, doc_path)])
           ELSE convert_loop(Tail(paths),
                  [acc EXCEPT !.documents = @ \o convert_single_document(doc_path)])

InitConv ==
  /\ tables = [t \in Tables |-> [m \in Merchants |-> PriorRows]]
  /\ last = NoLast
  /\ runs = 0
  /\ embedCall = IdleEmbed
  /\ split = IdleSplit
  /\ norm = IdleNorm
  /\ stores = IdleStores
  /\ conv \in {[IdleConv EXCEPT !.paths = paths] : paths \in PathLists}
  /\ pool = IdlePool /\ loop = IdleLoop
  /\ LateIdle

\* convert_documents(merchant_id, document_paths): the loop over the paths,
\* then the upload and the storage of the documents it collected
ConvertLoop ==
  /\ ~conv.done
  /\ \E m \in Merchants :
     \E acc \in {convert_loop(conv.paths, conv)} :
     \E r \in {convert_documents(tables[DocTable][m], 2, Len(acc.documents), {}, {}, "none")} :
       /\ conv' = [acc EXCEPT !.done = TRUE,
                              !.raised = acc.raised \/ r.outcome = "raised"]
       /\ tables' = IF acc.raised THEN tables
                    ELSE [tables EXCEPT ![DocTable][m] = r.rows]
  /\ UNCHANGED <<last, runs, embedCall, split, norm, stores, pool, loop>>
  /\ UNCHANGED lateVars

NextConv == ConvertLoop

SpecConv == InitConv /\ [][NextConv]_vars

\* C16 (as claimed): the ids of the chunks generated in one run over
\* distinct paths are pairwise distinct.
C16_ChunkIdsDistinct ==
  conv.done =>
    \A i, j \in DOMAIN conv.documents :
      i # j => conv.documents[i].id # conv.documents[j].id

\* C17: the loop never raises; a path that is missing or fails to
\* convert is in the skipped list and contributes no document, every other
\* path contributes at least one document and is not in the skipped list.
C17_SkippedOrConverted ==
  conv.done =>
    /\ ~conv.raised
    /\ \A k \in DOMAIN conv.paths :
         LET path    == conv.paths[k]
             skipped == \E i \in DOMAIN conv.skipped_files : conv.skipped_files[i] = path
             chunks  == {i \in DOMAIN conv.documents : conv.documents[i].source = path}
         IN  /\ skipped <=> path.fate \in {"missing", "raises"}
             /\ skipped <=> chunks = {}

\* a file whose conversion raises, followed by one that converts
C17_Witness ==
  /\ conv.done
  /\ Len(conv.paths) = 2
  /\ conv.paths[1].fate = "raises"
  /\ conv.paths[2].fate = "two_chunks"
  /\ Len(conv.skipped_files) = 1
  /\ Len(conv.documents) = 2

\* =================================================================
\* The connection pool (specification SpecPool)
\* =================================================================

MaxPoolCalls == 2

\* position of the first occurrence of op in the log (0: none)
IndexOf(log, op) ==
  IF \E i \in DOMAIN log : log[i] = op
  THEN CHOOSE i \in DOMAIN log : log[i] = op /\ \A j \in 1..(i - 1) : log[j] # op
  ELSE 0

\* a handler whose return_connection is skipped when conn.rollback() raises
finally_skipped(log, rollback_fails) ==
  IF rollback_fails /\ IndexOf(log, "rollback") # 0
  THEN SubSeq(log, 1, IndexOf(log, "rollback"))
  ELSE log

\* try / except / finally: the finally block runs whether or not
\* conn.rollback() raises in the except block
finally_runs(log, rollback_fails) == log

\* pool.getconn() calls that hand out a connection, pool.putconn() calls
getconn_count(log, fault) ==
  IF fault # "connect" /\ IndexOf(log, "connect") # 0 THEN 1 ELSE 0

putconn_count(log) == Cardinality({i \in DOMAIN log : log[i] = "return_connection"})

\* the pool and the call's record after a handler ran
pooled(kind, r, fault, rollback_fails) ==
  LET log  == finally_runs(r.log, rollback_fails)
      gets == getconn_count(log, fault)
      puts == putconn_count(log)
      rollback_raised == rollback_fails /\ IndexOf(log, "rollback") # 0
  IN  [ out |-> pool.out + gets - puts, calls |-> pool.calls + 1, kind |-> kind,
        fault |-> fault, rollback_raised |-> rollback_raised, gets |-> gets, puts |-> puts,
        outcome |-> IF rollback_raised THEN "raised" ELSE r.outcome, log |-> log ]

InitPool ==
  /\ tables = [t \in Tables |-> [m \in Merchants |-> PriorRows]]
  /\ last = NoLast
  /\ runs = 0
  /\ embedCall = IdleEmbed
  /\ split = IdleSplit
  /\ norm = IdleNorm
  /\ stores = IdleStores
  /\ conv = IdleConv
  /\ pool = IdlePool
  /\ loop = IdleLoop
  /\ LateIdle

\* convert_documents, with the connection _store_document_embeddings takes
PooledConvertDocuments ==
  \E n \in ItemCounts, bad \in {{}, {1}}, fault \in DocFaults, rollback_fails \in BOOLEAN :
    /\ pool.calls < MaxPoolCalls
    /\ Relevant(n, {}, bad, fault)
    /\ n = 0 => fault = "none"
    /\ \E r \in {convert_documents(tables[DocTable]["m1"], 2, n, {}, bad, fault)} :
         /\ tables' = [tables EXCEPT ![DocTable]["m1"] = r.rows]
         /\ pool' = pooled(DocTable, r, fault, rollback_fails)
    /\ UNCHANGED <<last, runs, embedCall, split, norm, stores, conv, loop>>
    /\ UNCHANGED lateVars

\* import_products, with the connection it takes
PooledImportProducts ==
  \E platform \in Platforms \cup {"magento"}, n \in ItemCounts,
     parse \in {"ok", "badformat", "norows"}, bad \in {{}, {1}},
     fault \in ProductFaults, rollback_fails \in BOOLEAN :
    /\ pool.calls < MaxPoolCalls
    /\ Relevant(n, {}, bad, fault)
    /\ parse # "ok" => n = 0 /\ fault = "none"
    /\ platform \notin Platforms => n = 0 /\ fault = "none" /\ parse = "ok"
    /\ \E before \in {IF platform \in Platforms THEN tables[platform]["m1"] ELSE {}} :
       \E r \in {import_products(before, platform, 2, n, parse, bad, fault)} :
         /\ tables' = IF platform \in Platforms
                      THEN [tables EXCEPT ![platform]["m1"] = r.rows]
                      ELSE tables
         /\ pool' = pooled(platform, r, fault, rollback_fails)
    /\ UNCHANGED <<last, runs, embedCall, split, norm, stores, conv, loop>>
    /\ UNCHANGED lateVars

NextPool == PooledConvertDocuments \/ PooledImportProducts

SpecPool == InitPool /\ [][NextPool]_vars

\* C18: every connection a handler takes from the pool is returned exactly
\* once before the handler ends, on every exit path, and no connection is
\* checked out after any sequence of runs.
C18_ConnectionReturnedOnce ==
  /\ pool.out = 0
  /\ pool.puts = pool.gets
  /\ pool.gets = 1 => pool.log[Len(pool.log)] = "return_connection"

\* a run whose commit fails and whose rollback then raises as well
C18_Witness ==
  /\ pool.calls = 2
  /\ pool.rollback_raised
  /\ pool.fault = "commit"
  /\ pool.outcome = "raised"
  /\ pool.gets = 1 /\ pool.puts = 1

\* =================================================================
\* Onboarding background tasks on the event loop (specification SpecLoop)
\* =================================================================

\* start_onboarding adds process_onboarding, a coroutine, as a background
\* task; the server's one event loop runs a coroutine until it awaits.
\* The positions of a task: queued, then the document run of
\* process_onboarding (delete, insert, commit), then done.
RunPositions == {"delete", "insert", "commit"}

next_pc(pc) ==
  CASE pc = "queued" -> "delete"
    [] pc = "delete" -> "insert"
    [] pc = "insert" -> "commit"
    [] OTHER -> "done"

\* a process_onboarding that yields to the event loop after the DELETE
await_points_after_delete == {"delete"}

\* the positions at which process_onboarding awaits: it has no await
await_points == {}

\* the task holds the event loop: it has started its run and is not
\* suspended at an await
HoldsLoop(j) ==
  loop.task[j].pc \in RunPositions /\ loop.task[j].pc \notin await_points

InitLoop ==
  /\ tables = [t \in Tables |-> [m \in Merchants |-> PriorRows]]
  /\ last = NoLast
  /\ runs = 0
  /\ embedCall = IdleEmbed
  /\ split = IdleSplit
  /\ norm = IdleNorm
  /\ stores = IdleStores
  /\ conv = IdleConv
  /\ pool = IdlePool
  /\ loop = IdleLoop
  /\ LateIdle

\* POST /onboard: the request handler runs on the event loop and queues the
\* background task
StartOnboarding ==
  \E m \in Merchants :
    /\ loop.started < MaxJobs
    /\ \A k \in 1..MaxJobs : ~HoldsLoop(k)
    /\ loop' = [ task |-> [loop.task EXCEPT ![loop.started + 1] =
                                               [merchant |-> m, pc |-> "queued"]],
                 started |-> loop.started + 1 ]
    /\ UNCHANGED <<coreVars, norm, stores, conv, pool>>
    /\ UNCHANGED lateVars

\* the event loop runs the next statement of a task: of the task that holds
\* the loop, or of any task when none holds it
ProcessOnboarding ==
  \E j \in 1..MaxJobs :
    /\ loop.task[j].pc \in RunPositions \cup {"queued"}
    /\ \A k \in 1..MaxJobs : k # j => ~HoldsLoop(k)
    /\ loop' = [loop EXCEPT !.task[j].pc = next_pc(@)]
    /\ UNCHANGED <<coreVars, norm, stores, conv, pool>>
    /\ UNCHANGED lateVars

NextLoop == StartOnboarding \/ ProcessOnboarding

SpecLoop == InitLoop /\ [][NextLoop]_vars

\* C20: no two document runs of one merchant are active at once, also
\* when onboarding is started more than once for the merchant.
C20_RunsOfOneMerchantSerialized ==
  \A j, k \in 1..MaxJobs :
    (j # k /\ loop.task[j].merchant = loop.task[k].merchant)
      => ~(loop.task[j].pc \in RunPositions /\ loop.task[k].pc \in RunPositions)

\* onboarding started twice for one merchant before either run began:
\* one run is between its DELETE and its commit, the other still waits
C20_Witness ==
  /\ loop.task[1].merchant = "m1" /\ loop.task[2].merchant = "m1"
  /\ loop.task[2].pc = "insert"
  /\ loop.task[1].pc = "queued"

\* =================================================================
\* Configuration arguments: import_products(platform),
\* generate_upload_url(folder)
\* =================================================================

MaxCfgCalls == 2

\* the platform names as character strings
Spell(name) ==
  CASE name = "shopify"     -> <<"s", "h", "o", "p", "i", "f", "y">>
    [] name = "woocommerce" -> <<"w", "o", "o", "c", "o", "m", "m", "e", "r", "c", "e">>
    [] name = "squarespace" -> <<"s", "q", "u", "a", "r", "e", "s", "p", "a", "c", "e">>

\* platform arguments a caller passes: exact, capitalised, padded, unknown, empty
PlatformArgs ==
  { Spell(p) : p \in Platforms }
    \cup { <<"S", "h", "o", "p", "i", "f", "y">>, <<" ", "W", "o", "o", "C", "o", "m", "m", "e", "r", "c", "e", "\n">>, <<"M", "a", "g", "e", "n", "t", "o">>, << >> }

\* str.lower() over the letters of the platform arguments
str_lower(s) ==
  [i \in DOMAIN s |-> CASE s[i] = "S" -> "s" [] s[i] = "W" -> "w" [] s[i] = "M" -> "m"
                        [] OTHER -> s[i]]

\* platform = platform.strip().lower()
normalized_platform(platform) == str_lower(str_strip(platform))

\* import_products as called with the caller's platform string: the
\* membership test on the normalised name comes before the download
import_products_of(committed, platform, src, n, parse, bad, fault) ==
  LET norm_p == normalized_platform(platform)
      named  == {p \in Platforms : Spell(p) = norm_p}
  IN  IF named = {}
      THEN [ import_products(committed, "unsupported", src, n, parse, bad, fault)
               EXCEPT !.outcome = "skipped" ]
      ELSE import_products(committed, CHOOSE p \in named : TRUE, src, n, parse, bad, fault)

valid_folders == {"knowledge_base", "prompt-docs", "training_files", "brand-images"}
FolderArgs == valid_folders \cup {"Knowledge_base", "products", ""}

\* generate_upload_url with the folder test after the blob operations
generate_upload_url_checks_late(folder, sign) ==
  IF sign = "raises" \/ folder \notin valid_folders
  THEN [outcome |-> "raised", log |-> <<"blob", "generate_signed_url">>]
  ELSE [outcome |-> "returned", log |-> <<"blob", "generate_signed_url">>]

\* generate_upload_url: ValueError for a folder outside valid_folders, then
\* bucket.blob(object_path) and blob.generate_signed_url(...), whose
\* exception is raised again as ValueError
generate_upload_url(folder, sign) ==
  IF folder \notin valid_folders
  THEN [outcome |-> "raised", log |-> << >>]
  ELSE IF sign = "raises"
  THEN [outcome |-> "raised", log |-> <<"blob", "generate_signed_url">>]
  ELSE [outcome |-> "returned", log |-> <<"blob", "generate_signed_url">>]

InitConfig ==
  /\ tables = [t \in Tables |-> [m \in Merchants |-> PriorRows]]
  /\ last = NoLast
  /\ runs = 0
  /\ embedCall = IdleEmbed
  /\ split = IdleSplit
  /\ norm = IdleNorm
  /\ stores = IdleStores
  /\ conv = IdleConv
  /\ pool = IdlePool
  /\ loop = IdleLoop
  /\ cfg = IdleCfg
  /\ client = IdleClient
  /\ filt = IdleFilt
  /\ onb = IdleOnb

ImportProductsOf ==
  \E m \in Merchants, platform \in PlatformArgs, n \in {0, 1},
     parse \in {"ok", "norows"}, fault \in {"none", "download", "connect", "commit"} :
    /\ cfg.calls < MaxCfgCalls
    /\ parse # "ok" => n = 0 /\ fault = "none"
    /\ LET norm_p == normalized_platform(platform)
           named  == {p \in Platforms : Spell(p) = norm_p}
           before == IF named = {} THEN {} ELSE tables[CHOOSE p \in named : TRUE][m]
           r      == import_products_of(before, platform, 2, n, parse, {}, fault)
       IN  /\ tables' = IF named = {} THEN tables
                        ELSE [tables EXCEPT ![CHOOSE p \in named : TRUE][m] = r.rows]
           /\ cfg' = [ calls |-> cfg.calls + 1, fn |-> "import_products", arg |-> platform,
                       outcome |-> r.outcome, log |-> r.log ]
    /\ UNCHANGED <<last, runs, embedCall, split, norm, stores, conv, pool, loop>>
    /\ UNCHANGED <<client, filt, onb>>

GenerateUploadUrl ==
  \E folder \in FolderArgs, sign \in {"ok", "raises"} :
    /\ cfg.calls < MaxCfgCalls
    /\ LET r == generate_upload_url(folder, sign)
       IN  cfg' = [ calls |-> cfg.calls + 1, fn |-> "generate_upload_url", arg |-> folder,
                    outcome |-> r.outcome, log |-> r.log ]
    /\ UNCHANGED <<coreVars, norm, stores, conv, pool, loop>>
    /\ UNCHANGED <<client, filt, onb>>

NextConfig == ImportProductsOf \/ GenerateUploadUrl

SpecConfig == InitConfig /\ [][NextConfig]_vars

MaxTextLen == 4

RECURSIVE StringsUpTo(_)
StringsUpTo(n) ==
  IF n = 0 THEN {<< >>}
  ELSE LET shorter == StringsUpTo(n - 1)
       IN  shorter \cup {Append(t, c) : t \in {u \in shorter : Len(u) = n - 1}, c \in Chars}

\* base64.b64encode(chunk.encode('utf-8')).decode('utf-8') and back
b64encode(content) == [raw_bytes |-> content]
b64decode(doc) == doc.raw_bytes

\* "if not content.strip(): continue", with the test left out
keeps_every_chunk(content) == TRUE

\* "if not content.strip(): continue": the chunk goes on when this holds
has_content(content) == str_strip(content) # << >>

\* documents of _convert_single_document: one per chunk, in chunk order
documents_of(chunks) ==
  [i \in DOMAIN chunks |-> [content |-> b64encode(chunks[i]), chunk_index |-> i]]

\* chunk_data of _store_document_embeddings
chunk_data_from(documents) ==
  SelectSeq([i \in DOMAIN documents |->
               [content |-> b64decode(documents[i].content),
                chunk_index |-> documents[i].chunk_index]],
            LAMBDA c : has_content(c.content))

\* the texts of all service calls of the embedding loop, in call order
sent_texts(chunk_data, bad) ==
  LET texts == [k \in DOMAIN chunk_data |-> Text(k, Len(chunk_data[k].content))]
      calls == chunk_calls_from(texts, bad, 0)
      RECURSIVE ids_of(_)
      ids_of(cs) == IF cs = << >> THEN << >> ELSE Head(cs).ids \o ids_of(Tail(cs))
      ids   == ids_of(calls)
  IN  [k \in DOMAIN ids |-> chunk_data[ids[k]].content]

\* the chunks whose embedding came back and that were inserted
inserted_chunks(chunk_data, bad) ==
  LET texts      == [k \in DOMAIN chunk_data |-> Text(k, Len(chunk_data[k].content))]
      embeddings == chunk_embeddings_from(texts, bad, 0)
  IN  SelectSeq([k \in DOMAIN chunk_data |->
                   [content |-> chunk_data[k].content,
                    chunk_index |-> chunk_data[k].chunk_index,
                    embedding |-> embeddings[k]]],
                LAMBDA c : c.embedding # None)

InitFilter ==
  /\ tables = [t \in Tables |-> [m \in Merchants |-> PriorRows]]
  /\ last = NoLast
  /\ runs = 0
  /\ embedCall = IdleEmbed
  /\ split = IdleSplit
  /\ norm = IdleNorm
  /\ stores = IdleStores
  /\ conv = IdleConv
  /\ pool = IdlePool
  /\ loop = IdleLoop
  /\ cfg = IdleCfg
  /\ client = IdleClient
  /\ filt \in {[IdleFilt EXCEPT !.text = t, !.bad = bad] :
                 t \in StringsUpTo(MaxTextLen), bad \in {{}, {1}}}
  /\ onb = IdleOnb

\* convert_documents for one document whose extracted text is filt.text:
\* split, encode, DELETE, decode and filter, embed, INSERT, COMMIT
ConvertText ==
  \E m \in Merchants :
    /\ ~filt.done
    /\ LET chunks     == split_text(filt.text, MaxChunkSize, MaxOverlap)
           chunk_data == chunk_data_from(documents_of(chunks))
           inserted   == inserted_chunks(chunk_data, filt.bad)
       IN  /\ filt' = [filt EXCEPT
                         !.m = m, !.chunks = chunks, !.done = TRUE,
                         !.sent = sent_texts(chunk_data, filt.bad),
                         !.inserted = [k \in DOMAIN inserted |-> inserted[k].content]]
           /\ tables' = [tables EXCEPT ![DocTable][m] =
                           commit(@, {[item |-> Item(2, inserted[k].chunk_index), vec |-> TRUE] :
                                        k \in DOMAIN inserted})]
    /\ UNCHANGED <<last, runs, embedCall, split, norm, stores, conv, pool, loop>>
    /\ UNCHANGED <<cfg, client, onb>>

NextFilter == ConvertText

SpecFilter == InitFilter /\ [][NextFilter]_vars

\* C23: the chunker turns an empty text into the single chunk "", and no
\* chunk that is empty or only whitespace is sent to the embedding service
\* or inserted into the document chunk table.
C23_BlankChunksDiscarded ==
  filt.done =>
    /\ filt.text = << >> => filt.chunks = << << >> >>
    /\ \A k \in DOMAIN filt.sent : str_strip(filt.sent[k]) # << >>
    /\ \A k \in DOMAIN filt.inserted : str_strip(filt.inserted[k]) # << >>
    /\ \A row \in tables[DocTable][filt.m] : str_strip(filt.chunks[row.item.idx]) # << >>

\* the empty text gave one empty chunk, nothing was sent, and the run
\* committed an empty chunk table for the merchant
C23_Witness ==
  /\ filt.done
  /\ filt.text = << >>
  /\ filt.chunks = << << >> >>
  /\ filt.sent = << >>
  /\ tables[DocTable][filt.m] = {}

\* =================================================================
\* The chunker as _convert_single_document calls it: a 2500-character
\* text, max_chunk_size 1000, overlap 200
\* =================================================================

max_chunk_size == 1000
chunk_overlap == 200
ScenarioLen == 2500

\* a paragraph of n characters: words of word_len letters, one space between
Para(n, word_len) ==
  [k \in 1..n |-> IF k % (word_len + 1) = 0 /\ k < n THEN " " ELSE "a"]

RECURSIVE JoinParas(_)
JoinParas(paras) ==
  IF Len(paras) = 1 THEN paras[1]
  ELSE paras[1] \o <<"\n", "\n">> \o JoinParas(Tail(paras))

\* paragraph lengths of the documents tried: three or four paragraphs, none
\* longer than max_chunk_size, 2500 characters with the blank lines between
ParaLens == {400, 500, 600, 623, 700, 750, 800, 832, 900, 1000}
Layouts ==
  { <<a, b, ScenarioLen - 4 - a - b>> : a \in ParaLens, b \in ParaLens }
    \cup { <<a, b, c, ScenarioLen - 6 - a - b - c>> :
             a \in {600, 623}, b \in {600, 623}, c \in {600, 623, 700} }
WordLens == {4, 7, max_chunk_size}

ScenarioTexts ==
  { JoinParas([k \in DOMAIN lens |-> Para(lens[k], w)]) :
      lens \in {l \in Layouts : l[Len(l)] \in 1..max_chunk_size}, w \in WordLens }

InitScenario ==
  /\ tables = [t \in Tables |-> [m \in Merchants |-> PriorRows]]
  /\ last = NoLast
  /\ runs = 0
  /\ embedCall = IdleEmbed
  /\ split \in [text : ScenarioTexts, max_size : {max_chunk_size},
                overlap : {chunk_overlap}, chunks : {<< >>}, done : {FALSE}]
  /\ MoreIdle

SpecScenario == InitScenario /\ [][NextChunk]_vars

\* the paragraphs of the scenario text are at most max_chunk_size long
ScenarioText ==
  /\ Len(split.text) = ScenarioLen
  /\ \A para \in Range(str_split(split.text, <<"\n", "\n">>)) : Len(para) <= max_chunk_size

\* C24 (as claimed): a 2500-character text without a paragraph of more
\* than 1000 characters, split at 1000 with overlap 200, gives exactly 3
\* chunks, and chunk 2 starts with a suffix of the last 200 characters of
\* chunk 1 that begins at a word boundary of chunk 1.
C24_ThreeChunksOverlapAtWordBoundary ==
  (split.done /\ ScenarioText) =>
    /\ Len(split.chunks) = 3
    /\ LET first == split.chunks[1]
       IN  \E k \in 1..Min(chunk_overlap, Len(first)) :
             /\ StartsWith(split.chunks[2], Drop(first, Len(first) - k))
             /\ (k = Len(first) \/ IsSpace(first[Len(first) - k]))

\* =================================================================
\* The embedding client: _get_embedding_model of both handler modules
\* =================================================================

MaxClientCalls == 5

\* _get_embedding_model of module mod, on that module's own globals
\* _aiplatform_initialized and _embedding_model: aiplatform.init when the
\* flag is unset, TextEmbeddingModel.from_pretrained when the model is None.
\* An exception of either leaves through the except of
\* _generate_embeddings_batch with what was assigned before it.
get_embedding_model(c, mod, init_raises, load_raises) ==
  LET init_ran  == ~c.aiplatform_initialized[mod]
      init_done == init_ran /\ ~init_raises
      reached   == ~(init_ran /\ init_raises)
      load_ran  == reached /\ ~c.embedding_model[mod]
      load_done == load_ran /\ ~load_raises
  IN  [ aiplatform_initialized |->
          [c.aiplatform_initialized EXCEPT ![mod] = @ \/ init_done],
        embedding_model |-> [c.embedding_model EXCEPT ![mod] = @ \/ load_done],
        inits |-> c.inits + (IF init_done THEN 1 ELSE 0),
        loads |-> c.loads + (IF load_done THEN 1 ELSE 0),
        calls |-> c.calls + 1,
        call  |-> [ mod |-> mod, init_ran |-> init_ran, load_ran |-> load_ran,
                    raised |-> (init_ran /\ init_raises) \/ (load_ran /\ load_raises) ] ]

InitClient ==
  /\ tables = [t \in Tables |-> [m \in Merchants |-> PriorRows]]
  /\ last = NoLast
  /\ runs = 0
  /\ embedCall = IdleEmbed
  /\ split = IdleSplit
  /\ norm = IdleNorm
  /\ stores = IdleStores
  /\ conv = IdleConv
  /\ pool = IdlePool
  /\ loop = IdleLoop
  /\ cfg = IdleCfg
  /\ client = IdleClient
  /\ filt = IdleFilt
  /\ onb = IdleOnb

\* an embedding call of the document pipeline
DocumentEmbeddingCall ==
  \E init_raises \in BOOLEAN, load_raises \in BOOLEAN :
    /\ client.calls < MaxClientCalls
    /\ client' = get_embedding_model(client, "document_converter", init_raises, load_raises)
    /\ UNCHANGED <<coreVars, norm, stores, conv, pool, loop>>
    /\ UNCHANGED <<cfg, filt, onb>>

\* an embedding call of the product pipeline
ProductEmbeddingCall ==
  \E init_raises \in BOOLEAN, load_raises \in BOOLEAN :
    /\ client.calls < MaxClientCalls
    /\ client' = get_embedding_model(client, "product_importer", init_raises, load_raises)
    /\ UNCHANGED <<coreVars, norm, stores, conv, pool, loop>>
    /\ UNCHANGED <<cfg, filt, onb>>

NextClient == DocumentEmbeddingCall \/ ProductEmbeddingCall

SpecClient == InitClient /\ [][NextClient]_vars

\* C25 (as claimed): over the embedding calls of both pipelines in one
\* process aiplatform.init completes at most once and the model is loaded
\* at most once, and a call made after an initialisation has completed
\* does not run the initialisation again.
C25_InitialisedOncePerProcess ==
  /\ client.inits <= 1
  /\ client.loads <= 1
  /\ client.call.init_ran => client.inits = (IF client.call.load_ran THEN 1 ELSE 0)

\* =================================================================
\* The grouped-export normalizer on a large product
\* =================================================================

\* more priced rows under one handle than the 100 variant ids that
\* "BASE_VARIANT_ID + idx * 100" sets apart for a product
MaxGroupRows == 101
MinGroupRows == 70

LargeRow(handle) ==
  [ handle |-> handle, title |-> <<"A", " ", "b">>, optname |-> << >>,
    optval |-> <<"M">>, price |-> <<"9">> ]

\* a product of g priced rows followed by a product of s priced rows
LargeExport(g, s) ==
  [k \in 1..g |-> LargeRow(<<"a">>)] \o [k \in 1..s |-> LargeRow(<<"a", " ", "b">>)]

InitLarge ==
  /\ tables = [t \in Tables |-> [m \in Merchants |-> PriorRows]]
  /\ last = NoLast
  /\ runs = 0
  /\ embedCall = IdleEmbed
  /\ split = IdleSplit
  /\ stores = IdleStores
  /\ conv = IdleConv /\ pool = IdlePool /\ loop = IdleLoop
  /\ LateIdle
  /\ norm \in
       { [IdleNorm EXCEPT !.platform = "shopify", !.grouped = TRUE,
                          !.rows = LargeExport(g, s)] :
           g \in MinGroupRows..MaxGroupRows, s \in 1..2 }

SpecLarge == InitLarge /\ [][NextNorm]_vars

\* C29 (as claimed): within one run of the grouped-export normalizer no
\* two variants have the same variant id, whatever the number of priced
\* rows of a handle group.
C29_VariantIdsDistinct ==
  (norm.done /\ norm.grouped) =>
    \A p \in DOMAIN norm.products, q \in DOMAIN norm.products :
      \A i \in DOMAIN norm.products[p].variants, j \in DOMAIN norm.products[q].variants :
        norm.products[p].variants[i].id = norm.products[q].variants[j].id
          => p = q /\ i = j

\* =================================================================
\* process_onboarding: the steps of one onboarding run
\* =================================================================

MaxOnbRuns == 2

StepIndex(step) == CHOOSE k \in 1..Len(Steps) : Steps[k] = step

\* every except block ends in raise
on_failure_always_raises(step) == "stops"

\* the except block of a step: categories, documents and a Vertex setup that
\* lacks permissions log and carry on, the other steps raise again
on_failure(step) ==
  IF step \in {"process_categories", "convert_documents"} THEN "continues" ELSE "stops"

\* how a step ends for the given collaborator behaviour
StepResult(step, in) ==
  CASE step = "create_merchant_record" ->
         IF in.create = "ok" THEN "completed" ELSE "failed"
    [] step = "create_folders" ->
         IF in.folders = "ok" THEN "completed" ELSE "failed"
    [] step = "process_products" ->
         IF in.products = "none" THEN "skipped"
         ELSE IF in.products = "ok" THEN "completed" ELSE "failed"
    [] step = "process_categories" ->
         IF in.categories = "none" THEN "skipped"
         ELSE IF in.categories = "ok" THEN "completed" ELSE "failed"
    [] step = "convert_documents" ->
         IF in.documents \in {"none", "all_skipped"} THEN "skipped"
         ELSE IF in.documents = "ok" THEN "completed" ELSE "failed"
    [] step = "setup_vertex" ->
         IF in.vertex = "ok" THEN "completed" ELSE "failed"
    [] step = "generate_config" ->
         IF in.config = "ok" THEN "completed" ELSE "failed"

\* does the failure of the step end the run (the exception reaches the
\* outer except of process_onboarding)
Stops(step, in) ==
  /\ StepResult(step, in) = "failed"
  /\ IF step = "setup_vertex" THEN in.vertex = "raises"
     ELSE on_failure(step) = "stops"

\* the steps taken: all up to and including the first one that stops the run
StepsTaken(in) ==
  LET stopping == {k \in 1..(Len(Steps) - 1) : Stops(Steps[k], in)}
  IN  IF stopping = {} THEN 1..(Len(Steps) - 1)
      ELSE 1..(CHOOSE k \in stopping : \A j \in stopping : k <= j)

\* update_merchant_onboarding_step(step_name='onboarding', completed):
\* UPDATE merchants SET onboarding_status = .. WHERE merchant_id; a database
\* error is logged and swallowed, a merchant without a row has nothing updated
update_merchant_onboarding_step(row, completed, in) ==
  IF row = "none" \/ in.status_update # "ok" THEN row
  ELSE IF completed THEN "completed" ELSE "failed"

\* the connection of the vertex_datastore_id UPDATE: get_connection, execute,
\* commit, return_connection in one try block without finally
vertex_update_leaks(in) == in.vertex = "ok" /\ in.vertex_db \in {"update_raises", "commit_raises"}

process_onboarding(o, m, in) ==
  LET taken     == StepsTaken(in)
      stopped   == \E k \in taken : Stops(Steps[k], in)
      status    == [k \in 1..Len(Steps) |->
                      IF k \in taken THEN StepResult(Steps[k], in)
                      ELSE IF k = Len(Steps)
                           THEN (IF stopped THEN "failed" ELSE "completed")
                           ELSE "pending"]
      \* create_merchant: INSERT .. ON CONFLICT (merchant_id) DO UPDATE with
      \* onboarding_status 'pending'; rolled back when it fails
      created   == IF in.create = "ok" THEN "pending" ELSE o.row[m]
  IN  [ runs   |-> o.runs + 1,
        m      |-> m,
        inputs |-> in,
        status |-> status,
        row    |-> [o.row EXCEPT ![m] = update_merchant_onboarding_step(created, ~stopped, in)],
        out    |-> o.out + (IF StepIndex("setup_vertex") \in taken /\ vertex_update_leaks(in)
                            THEN 1 ELSE 0) ]

\* the collaborator behaviour that decides how step number k ends
StepInput(k, in) ==
  CASE k = 1 -> in.create [] k = 2 -> in.folders [] k = 3 -> in.products
    [] k = 4 -> in.categories [] k = 5 -> in.documents [] k = 6 -> in.vertex
    [] k = 7 -> in.config

\* collaborator behaviours, one per distinct course of a run: a step that is
\* not reached is left at "ok", and a failing vertex_datastore_id UPDATE is
\* tried on the runs whose product, category and document steps succeed
OnbInputs ==
  { in \in [ create : {"ok", "fails"}, folders : {"ok", "raises"},
             products : {"none", "ok", "raises"}, categories : {"none", "ok", "raises"},
             documents : {"none", "ok", "all_skipped", "raises"},
             vertex : {"ok", "permission", "raises"},
             vertex_db : {"ok", "connect_raises", "update_raises", "commit_raises"},
             config : {"ok", "raises"}, status_update : {"ok", "fails"} ] :
      /\ \A k \in 1..(Len(Steps) - 1) : k \notin StepsTaken(in) => StepInput(k, in) = "ok"
      /\ in.vertex_db # "ok" =>
           /\ in.vertex = "ok" /\ StepIndex("setup_vertex") \in StepsTaken(in)
           /\ in.products = "ok" /\ in.categories = "ok" /\ in.documents = "ok" }

InitOnboard ==
  /\ tables = [t \in Tables |-> [m \in Merchants |-> PriorRows]]
  /\ last = NoLast
  /\ runs = 0
  /\ embedCall = IdleEmbed
  /\ split = IdleSplit
  /\ norm = IdleNorm
  /\ stores = IdleStores
  /\ conv = IdleConv
  /\ pool = IdlePool
  /\ loop = IdleLoop
  /\ cfg = IdleCfg
  /\ client = IdleClient
  /\ filt = IdleFilt
  /\ onb = IdleOnb

\* one background task from its first statement to its return
RunOnboarding ==
  \E m \in Merchants, in \in OnbInputs :
    /\ onb.runs < MaxOnbRuns
    /\ onb' = process_onboarding(onb, m, in)
    /\ UNCHANGED <<coreVars, norm, stores, conv, pool, loop>>
    /\ UNCHANGED <<cfg, client, filt>>

NextOnboard == RunOnboarding

SpecOnboard == InitOnboard /\ [][NextOnboard]_vars

StatusOf(step) == onb.status[StepIndex(step)]

Required == {"create_merchant_record", "create_folders", "process_products", "generate_config"}

\* the steps between the given one and finalize have not been started
NothingAfter(step) ==
  \A k \in (StepIndex(step) + 1)..(Len(Steps) - 1) : onb.status[k] = "pending"

\* a failed category or document step is followed by the Vertex step, by the
\* config step unless the Vertex step itself ended the run, and by finalize
OptionalFailureContinues ==
  \A step \in {"process_categories", "convert_documents"} :
    StatusOf(step) = "failed" =>
      /\ StatusOf("setup_vertex") \in {"completed", "failed"}
      /\ onb.inputs.vertex # "raises" => StatusOf("generate_config") \in {"completed", "failed"}
      /\ StatusOf("finalize") \in {"completed", "failed"}

FinalizeReflectsRequiredSteps ==
  /\ StatusOf("finalize") \in {"completed", "failed"}
  /\ StatusOf("finalize") = "completed" => \A step \in Required : StatusOf(step) # "failed"

C30_VertexConnectionReturned == onb.out = 0

====
